---- MODULE Spec2Model ----
\* A model of the left-hand keyboard trainer (TrainerWindow): the item catalog,
\* the difficulty filter, the per-item match state machine, the session
\* controller and the history, as src/trainer_window.cpp implements them.
\*
\* Conventions
\*   - A QString that is indexed by the code (TrainingItem::sequence, the text
\*     of a key event) is a tuple of one-character strings; a QString that is
\*     only displayed (labels, messages) is a string.  The messages are the
\*     English originals of src/unnamed/part_001 (the strings of
\*     trainer_window.cpp are their translations).
\*   - Qt::KeyboardModifiers is a set of modifier names; `&` is intersection.
\*   - Every handler is an operator from the window's state (a record of its
\*     member variables) to the state it leaves behind; the value drawn from
\*     QRandomGenerator is a parameter.  An action applies one handler.
\*   - Widgets that are only painted (progress bar, mode label, virtual
\*     keyboard, pressed_keys_, the style sheet) and PlaySound (an empty placeholder,
\*     trainer_window.cpp:1367) are left out; what the stats label and the
\*     timer label show is given by operators of the state.
EXTENDS Integers, Sequences, FiniteSets, TLC

\* ------------------------------------------------------------------ bounds

\* Key and close events are delivered to a session, and a session is started,
\* while fewer than MaxRounds rounds were played (in this session and in the
\* recorded ones together).
MaxRounds == 2
\* The time limit and the target rounds found in the settings store.
StoredTimeLimit == 2
StoredTargetRounds == 2
\* The longest stored history whose summary is looked at.
MaxHistoryLen == 2
\* A session is started while fewer than MaxSessions records of this run of
\* the program are in the history.
MaxSessions == 2
\* Time passes in steps of TimeStep milliseconds, while elapsed_ reads less
\* than MaxTimeSteps steps.
TimeStep == 500
MaxTimeSteps == 2

\* ------------------------------------------------------------ Qt constants

Key_Space == 32
Key_Exclam == 33
Key_NumberSign == 35
Key_Dollar == 36
Key_Percent == 37
Key_0 == 48
Key_At == 64
Key_A == 65
Key_Escape == 16777216
Key_Tab == 16777217
Key_Shift == 16777248
Key_Control == 16777249
Key_Meta == 16777250
Key_Alt == 16777251
Key_CapsLock == 16777252
Key_F1 == 16777264

Key_F2 == Key_F1 + 1
Key_F3 == Key_F1 + 2
Key_F4 == Key_F1 + 3
Key_F5 == Key_F1 + 4
Key_F6 == Key_F1 + 5
Key_F7 == Key_F1 + 6
Key_F8 == Key_F1 + 7

\* Qt::Key_A .. Qt::Key_Z are consecutive, in alphabet order.
Alphabet ==
    << "a", "b", "c", "d", "e", "f", "g", "h", "i", "j", "k", "l", "m",
       "n", "o", "p", "q", "r", "s", "t", "u", "v", "w", "x", "y", "z" >>
UpperAlphabet ==
    << "A", "B", "C", "D", "E", "F", "G", "H", "I", "J", "K", "L", "M",
       "N", "O", "P", "Q", "R", "S", "T", "U", "V", "W", "X", "Y", "Z" >>

LetterKey(ch) == Key_A + (CHOOSE i \in 1..26 : Alphabet[i] = ch) - 1

NoModifier == {}
ControlModifier == {"Control"}
ShiftModifier == {"Shift"}
AltModifier == {"Alt"}
MetaModifier == {"Meta"}
KeypadModifier == {"Keypad"}

\* QChar::toLower / QChar::toUpper on the characters the program meets.
CharToLower(ch) ==
    IF \E i \in 1..26 : UpperAlphabet[i] = ch
    THEN Alphabet[CHOOSE i \in 1..26 : UpperAlphabet[i] = ch]
    ELSE ch
CharToUpper(ch) ==
    IF \E i \in 1..26 : Alphabet[i] = ch
    THEN UpperAlphabet[CHOOSE i \in 1..26 : Alphabet[i] = ch]
    ELSE ch

\* QString::toLower / QString::toUpper on an indexed string.
ToLower(text) == [i \in 1..Len(text) |-> CharToLower(text[i])]
ToUpper(text) == [i \in 1..Len(text) |-> CharToUpper(text[i])]

\* The displayed form of an indexed string.
RECURSIVE Display(_)
Display(text) == IF text = <<>> THEN "" ELSE Head(text) \o Display(Tail(text))

\* ------------------------------------------------------------------- enums

kBeginner == "kBeginner"
kIntermediate == "kIntermediate"
kAdvanced == "kAdvanced"
kCustom == "kCustom"
Difficulty == {kBeginner, kIntermediate, kAdvanced, kCustom}

kEndless == "kEndless"
kTimed == "kTimed"
kChallenge == "kChallenge"
kZen == "kZen"
TrainingMode == {kEndless, kTimed, kChallenge, kZen}

kSingleKey == "kSingleKey"
kCombo == "kCombo"
kSequence == "kSequence"
kSpecialKey == "kSpecialKey"
TrainingType == {kSingleKey, kCombo, kSequence, kSpecialKey}

kMaxHistoryRecords == 100

\* ------------------------------------------------------- TrainingItem helpers

MakeSingleKey(ch, diff) ==
    [type |-> kSingleKey, label |-> Display(ToUpper(<<ch>>)),
     sequence |-> ToLower(<<ch>>), key |-> 0, modifiers |-> NoModifier,
     min_difficulty |-> diff]

MakeSequence(seq, diff) ==
    [type |-> kSequence, label |-> Display(ToUpper(seq)),
     sequence |-> ToLower(seq), key |-> 0, modifiers |-> NoModifier,
     min_difficulty |-> diff]

MakeCombo(mods, key, label, diff) ==
    [type |-> kCombo, label |-> label, sequence |-> <<>>, key |-> key,
     modifiers |-> mods, min_difficulty |-> diff]

MakeSpecialKey(key, label, diff) ==
    [type |-> kSpecialKey, label |-> label, sequence |-> <<>>, key |-> key,
     modifiers |-> NoModifier, min_difficulty |-> diff]

\* ------------------------------------------------------------- the catalog

basic_keys ==
    << "1", "2", "3", "4", "5", "q", "w", "e", "r", "t",
       "a", "s", "d", "f", "g", "z", "x", "c", "v", "b" >>
extra_keys == << "6", "7", "y", "h", "u", "n" >>

special_keys ==
    << MakeSpecialKey(Key_Space, "Space", kBeginner),
       MakeSpecialKey(Key_Tab, "Tab", kIntermediate),
       MakeSpecialKey(Key_CapsLock, "Caps", kIntermediate),
       MakeSpecialKey(Key_F1, "F1", kIntermediate),
       MakeSpecialKey(Key_F2, "F2", kIntermediate),
       MakeSpecialKey(Key_F3, "F3", kIntermediate),
       MakeSpecialKey(Key_F4, "F4", kIntermediate),
       MakeSpecialKey(Key_F5, "F5", kAdvanced),
       MakeSpecialKey(Key_F6, "F6", kAdvanced),
       MakeSpecialKey(Key_F7, "F7", kAdvanced),
       MakeSpecialKey(Key_F8, "F8", kAdvanced) >>

CtrlDigit(i, diff) ==
    MakeCombo(ControlModifier, Key_0 + i, "Ctrl+" \o ToString(i), diff)

shift_combos ==
    << MakeCombo(ShiftModifier, Key_Exclam, "Shift+1", kIntermediate),
       MakeCombo(ShiftModifier, Key_At, "Shift+2", kIntermediate),
       MakeCombo(ShiftModifier, Key_NumberSign, "Shift+3", kIntermediate),
       MakeCombo(ShiftModifier, Key_Dollar, "Shift+4", kIntermediate),
       MakeCombo(ShiftModifier, Key_Percent, "Shift+5", kIntermediate) >>

ctrl_letters == << "q", "w", "e", "r", "a", "s", "d", "f", "z", "x", "c", "v" >>
shift_letters == << "q", "w", "e", "r", "a", "s" >>

LetterCombo(mods, prefix, ch, diff) ==
    MakeCombo(mods, LetterKey(ch), prefix \o CharToUpper(ch), diff)

alt_combos ==
    << MakeCombo(AltModifier, Key_F1, "Alt+F1", kAdvanced),
       MakeCombo(AltModifier, Key_F2, "Alt+F2", kAdvanced),
       MakeCombo(AltModifier, Key_F3, "Alt+F3", kAdvanced),
       MakeCombo(AltModifier, Key_F4, "Alt+F4", kAdvanced) >>

basic_sequences ==
    << <<"1", "a">>, <<"2", "a">>, <<"3", "a">>,
       <<"1", "s">>, <<"2", "s">>, <<"3", "s">>,
       <<"1", "d">>, <<"2", "d">>, <<"3", "d">>,
       <<"1", "q">>, <<"2", "q">>, <<"3", "q">> >>

advanced_sequences ==
    << <<"1", "a", "a">>, <<"2", "a", "a">>, <<"3", "a", "a">>,
       <<"1", "s", "s">>, <<"2", "s", "s">>, <<"3", "s", "s">>,
       <<"1", "q", "q", "q", "q">>, <<"2", "w", "w">>, <<"3", "e", "e">>,
       <<"q", "w", "e", "r">>, <<"a", "s", "d", "f">>, <<"z", "x", "c", "v">>,
       <<"w", "a", "s", "d">>, <<"1", "a", "2", "a">>, <<"1", "s", "2", "s">>,
       <<"4", "s", "d">>, <<"5", "v", "v">>, <<"1", "a", "2", "a", "3", "a">>,
       <<"q", "q", "q", "q">>, <<"a", "a", "a", "a">>, <<"s", "s", "s", "s">>,
       <<"1", "2", "3", "4">>, <<"5", "4", "3", "2">>,
       <<"q", "w", "e", "r", "t">>, <<"a", "s", "d", "f", "g">>,
       <<"z", "x", "c", "v", "b">> >>

\* all_items_ as InitAllTrainingItems leaves it; it is never changed afterwards.
InitAllTrainingItems ==
    [i \in 1..Len(basic_keys) |-> MakeSingleKey(basic_keys[i], kBeginner)]
    \o [i \in 1..Len(extra_keys) |-> MakeSingleKey(extra_keys[i], kIntermediate)]
    \o special_keys
    \o [i \in 1..5 |-> CtrlDigit(i, kIntermediate)]
    \o [j \in 1..4 |-> CtrlDigit(j + 5, kAdvanced)]
    \o << MakeCombo(ControlModifier, Key_0, "Ctrl+0", kAdvanced) >>
    \o shift_combos
    \o [i \in 1..Len(ctrl_letters) |->
            LetterCombo(ControlModifier, "Ctrl+", ctrl_letters[i], kIntermediate)]
    \o [i \in 1..Len(shift_letters) |->
            LetterCombo(ShiftModifier, "Shift+", shift_letters[i], kAdvanced)]
    \o alt_combos
    \o [i \in 1..Len(basic_sequences) |->
            MakeSequence(basic_sequences[i], kIntermediate)]
    \o [i \in 1..Len(advanced_sequences) |->
            MakeSequence(advanced_sequences[i], kAdvanced)]

all_items_ == InitAllTrainingItems

\* ------------------------------------------------------------------- state

VARIABLES
    items_,               \* the working set: positions in all_items_, in order
    current_index_,       \* 0-based index into items_, -1 when none
    sequence_pos_,
    training_,
    paused_,
    rounds_total_,
    rounds_correct_,
    target_rounds_,
    time_limit_seconds_,
    remaining_seconds_,
    difficulty_,
    mode_,
    custom_single_keys_,
    custom_special_keys_,
    custom_combos_,
    custom_sequences_,
    elapsed_,             \* QElapsedTimer: [valid, ms since the last restart]
    countdown_timer_,     \* QTimer: TRUE while it is active
    paused_elapsed_,
    history_,
    error_label_,         \* the text shown by error_label_
    target_label_,        \* the text shown by target_label_
    start_button_,        \* the buttons: TRUE while enabled
    stop_button_,
    pause_button_,
    settings_button_,
    history_button_,
    total_sessions_label_,  \* the number shown by total_sessions_label_
    best_speed_label_,    \* the numbers shown by the two labels of the
    best_accuracy_label_, \* history page, in tenths; -1 for the initial "--"
    dark_theme_,
    sound_enabled_,
    show_keyboard_,
    stacked_widget_,      \* the page on display
    settings_store_,      \* QSettings("LeftHandTrainer", "Settings")
    closed_               \* a close request was accepted: the window is gone

vars ==
    << items_, current_index_, sequence_pos_, training_, paused_,
       rounds_total_, rounds_correct_, target_rounds_, time_limit_seconds_,
       remaining_seconds_, difficulty_, mode_, custom_single_keys_,
       custom_special_keys_, custom_combos_, custom_sequences_, elapsed_,
       countdown_timer_, paused_elapsed_, history_, error_label_,
       target_label_, start_button_, stop_button_, pause_button_,
       settings_button_, history_button_, total_sessions_label_,
       best_speed_label_, best_accuracy_label_, dark_theme_, sound_enabled_,
       show_keyboard_, stacked_widget_, settings_store_, closed_ >>

\* The window's state as one record, the argument of every handler.
State ==
    [items_ |-> items_, current_index_ |-> current_index_,
     sequence_pos_ |-> sequence_pos_, training_ |-> training_,
     paused_ |-> paused_, rounds_total_ |-> rounds_total_,
     rounds_correct_ |-> rounds_correct_, target_rounds_ |-> target_rounds_,
     time_limit_seconds_ |-> time_limit_seconds_,
     remaining_seconds_ |-> remaining_seconds_, difficulty_ |-> difficulty_,
     mode_ |-> mode_, custom_single_keys_ |-> custom_single_keys_,
     custom_special_keys_ |-> custom_special_keys_,
     custom_combos_ |-> custom_combos_,
     custom_sequences_ |-> custom_sequences_, elapsed_ |-> elapsed_,
     countdown_timer_ |-> countdown_timer_,
     paused_elapsed_ |-> paused_elapsed_, history_ |-> history_,
     error_label_ |-> error_label_, target_label_ |-> target_label_,
     start_button_ |-> start_button_, stop_button_ |-> stop_button_,
     pause_button_ |-> pause_button_, settings_button_ |-> settings_button_,
     history_button_ |-> history_button_,
     total_sessions_label_ |-> total_sessions_label_,
     best_speed_label_ |-> best_speed_label_,
     best_accuracy_label_ |-> best_accuracy_label_,
     dark_theme_ |-> dark_theme_, sound_enabled_ |-> sound_enabled_,
     show_keyboard_ |-> show_keyboard_,
     stacked_widget_ |-> stacked_widget_,
     settings_store_ |-> settings_store_, closed_ |-> closed_]

\* The handler has run: the window is in state s.
Becomes(s) ==
    \E r \in {s} :
        /\ items_' = r.items_
        /\ current_index_' = r.current_index_
        /\ sequence_pos_' = r.sequence_pos_
        /\ training_' = r.training_
        /\ paused_' = r.paused_
        /\ rounds_total_' = r.rounds_total_
        /\ rounds_correct_' = r.rounds_correct_
        /\ target_rounds_' = r.target_rounds_
        /\ time_limit_seconds_' = r.time_limit_seconds_
        /\ remaining_seconds_' = r.remaining_seconds_
        /\ difficulty_' = r.difficulty_
        /\ mode_' = r.mode_
        /\ custom_single_keys_' = r.custom_single_keys_
        /\ custom_special_keys_' = r.custom_special_keys_
        /\ custom_combos_' = r.custom_combos_
        /\ custom_sequences_' = r.custom_sequences_
        /\ elapsed_' = r.elapsed_
        /\ countdown_timer_' = r.countdown_timer_
        /\ paused_elapsed_' = r.paused_elapsed_
        /\ history_' = r.history_
        /\ error_label_' = r.error_label_
        /\ target_label_' = r.target_label_
        /\ start_button_' = r.start_button_
        /\ stop_button_' = r.stop_button_
        /\ pause_button_' = r.pause_button_
        /\ settings_button_' = r.settings_button_
        /\ history_button_' = r.history_button_
        /\ total_sessions_label_' = r.total_sessions_label_
        /\ best_speed_label_' = r.best_speed_label_
        /\ best_accuracy_label_' = r.best_accuracy_label_
        /\ dark_theme_' = r.dark_theme_
        /\ sound_enabled_' = r.sound_enabled_
        /\ show_keyboard_' = r.show_keyboard_
        /\ stacked_widget_' = r.stacked_widget_
        /\ settings_store_' = r.settings_store_
        /\ closed_' = r.closed_

\* items_.at(index)
ItemAt(s, index) == all_items_[s.items_[index + 1]]

\* ------------------------------------------------------ the difficulty filter

\* Faulty variant: kIntermediate leaves the kBeginner items out.
Include_IntermediateAlone(s, item) ==
    CASE s.difficulty_ = kBeginner -> item.min_difficulty = kBeginner
      [] s.difficulty_ = kIntermediate -> item.min_difficulty = kIntermediate
      [] s.difficulty_ = kAdvanced -> TRUE
      [] s.difficulty_ = kCustom ->
            CASE item.type = kSingleKey -> s.custom_single_keys_
              [] item.type = kSpecialKey -> s.custom_special_keys_
              [] item.type = kCombo -> s.custom_combos_
              [] item.type = kSequence -> s.custom_sequences_

Include(s, item) ==
    CASE s.difficulty_ = kBeginner -> item.min_difficulty = kBeginner
      [] s.difficulty_ = kIntermediate ->
            \/ item.min_difficulty = kBeginner
            \/ item.min_difficulty = kIntermediate
      [] s.difficulty_ = kAdvanced -> TRUE
      [] s.difficulty_ = kCustom ->
            CASE item.type = kSingleKey -> s.custom_single_keys_
              [] item.type = kSpecialKey -> s.custom_special_keys_
              [] item.type = kCombo -> s.custom_combos_
              [] item.type = kSequence -> s.custom_sequences_

AllPositions == [i \in 1..Len(all_items_) |-> i]

\* Faulty variant: the filter without its fallback to the whole catalog.
FilterItemsByDifficulty_NoFallback(s) ==
    LET Keep(i) == Include(s, all_items_[i])
    IN  [s EXCEPT !.items_ = SelectSeq(AllPositions, Keep)]

\* Faulty variant: the fallback that keeps the first item of the catalog.
FilterItemsByDifficulty_FirstItemOnly(s) ==
    LET Keep(i) == Include(s, all_items_[i])
        kept == SelectSeq(AllPositions, Keep)
    IN  [s EXCEPT !.items_ = IF kept = <<>> THEN <<1>> ELSE kept]

FilterItemsByDifficulty(s) ==
    LET Keep(i) == Include(s, all_items_[i])
        kept == SelectSeq(AllPositions, Keep)
    IN  [s EXCEPT !.items_ = IF kept = <<>> THEN AllPositions ELSE kept]

\* ------------------------------------------------------------------ display

UpdateErrorLabel(s, text) == [s EXCEPT !.error_label_ = text]

\* QStringLiteral("%1\n(%2/%3)").arg(label).arg(pos).arg(total)
SequenceDisplay(label, pos, total) ==
    label \o "\n(" \o ToString(pos) \o "/" \o ToString(total) \o ")"

ShowCurrentItem(s) ==
    IF s.current_index_ < 0 \/ s.current_index_ >= Len(s.items_)
    THEN [s EXCEPT !.target_label_ = "No training item"]
    ELSE LET item == ItemAt(s, s.current_index_)
         IN  IF item.type = kSequence
             THEN [s EXCEPT !.target_label_ =
                        SequenceDisplay(item.label, 0, Len(item.sequence))]
             ELSE [s EXCEPT !.target_label_ = item.label]

\* --------------------------------------------------------------- the session

\* Faulty variant: the next item is taken without resetting sequence_pos_.
NextItem_KeepsProgress(s, index) ==
    IF s.items_ = <<>>
    THEN s
    ELSE ShowCurrentItem(
            UpdateErrorLabel([s EXCEPT !.current_index_ = index], ""))

\* index: the value of QRandomGenerator::global()->bounded(items_.size())
NextItem(s, index) ==
    IF s.items_ = <<>>
    THEN s
    ELSE ShowCurrentItem(
            UpdateErrorLabel(
                [s EXCEPT !.current_index_ = index, !.sequence_pos_ = 0], ""))

\* Faulty variant: the trim that drops the newest record.
RECURSIVE KeepRecent_DropsNewest(_)
KeepRecent_DropsNewest(history) ==
    IF Len(history) > kMaxHistoryRecords
    THEN KeepRecent_DropsNewest(Tail(history))
    ELSE history

\* while (history_.size() > kMaxHistoryRecords) history_.removeLast();
RECURSIVE KeepRecent(_)
KeepRecent(history) ==
    IF Len(history) > kMaxHistoryRecords
    THEN KeepRecent(SubSeq(history, 1, Len(history) - 1))
    ELSE history

\* The duration is kept in milliseconds (the code divides them by 1000.0).
SaveSessionRecord(s) ==
    LET record ==
            [total_rounds |-> s.rounds_total_,
             correct_rounds |-> s.rounds_correct_,
             duration_ms |-> s.elapsed_.ms + s.paused_elapsed_,
             difficulty |-> s.difficulty_,
             mode |-> s.mode_]
    IN  [s EXCEPT !.history_ = KeepRecent(<<record>> \o s.history_)]

\* Faulty variant: the stop that leaves the countdown running.
StopTraining_LeavesCountdown(s) ==
    LET s2 == IF s.rounds_total_ > 0 /\ s.mode_ # kZen
              THEN SaveSessionRecord(s)
              ELSE s
    IN  UpdateErrorLabel(
            [s2 EXCEPT !.training_ = FALSE, !.paused_ = FALSE,
                       !.start_button_ = TRUE, !.stop_button_ = FALSE,
                       !.pause_button_ = FALSE, !.settings_button_ = TRUE,
                       !.history_button_ = TRUE,
                       !.target_label_ = "Stopped"],
            "")

\* Faulty variant: the stop that records the sessions of every mode.
StopTraining_RecordsZen(s) ==
    LET s1 == [s EXCEPT !.countdown_timer_ = FALSE]
        s2 == IF s1.rounds_total_ > 0
              THEN SaveSessionRecord(s1)
              ELSE s1
    IN  UpdateErrorLabel(
            [s2 EXCEPT !.training_ = FALSE, !.paused_ = FALSE,
                       !.start_button_ = TRUE, !.stop_button_ = FALSE,
                       !.pause_button_ = FALSE, !.settings_button_ = TRUE,
                       !.history_button_ = TRUE,
                       !.target_label_ = "Stopped"],
            "")

StopTraining(s) ==
    LET s1 == [s EXCEPT !.countdown_timer_ = FALSE]
        s2 == IF s1.rounds_total_ > 0 /\ s1.mode_ # kZen
              THEN SaveSessionRecord(s1)
              ELSE s1
    IN  UpdateErrorLabel(
            [s2 EXCEPT !.training_ = FALSE, !.paused_ = FALSE,
                       !.start_button_ = TRUE, !.stop_button_ = FALSE,
                       !.pause_button_ = FALSE, !.settings_button_ = TRUE,
                       !.history_button_ = TRUE,
                       !.target_label_ = "Stopped"],
            "")

\* Faulty variant: the start that keeps the paused total of the session
\* before.
StartTraining_KeepsPausedTotal(s, index) ==
    LET s0 == IF s.items_ = <<>> THEN FilterItemsByDifficulty(s) ELSE s
    IN  IF s0.items_ = <<>>
        THEN s0
        ELSE LET s1 == UpdateErrorLabel(
                        [s0 EXCEPT !.rounds_total_ = 0, !.rounds_correct_ = 0,
                                   !.training_ = TRUE, !.paused_ = FALSE,
                                   !.sequence_pos_ = 0],
                        "")
                 s2 == [s1 EXCEPT !.elapsed_ = [valid |-> TRUE, ms |-> 0],
                                  !.start_button_ = FALSE,
                                  !.stop_button_ = TRUE,
                                  !.pause_button_ = TRUE,
                                  !.settings_button_ = FALSE,
                                  !.history_button_ = FALSE]
                 s3 == IF s2.mode_ = kTimed
                       THEN [s2 EXCEPT
                                !.remaining_seconds_ = s2.time_limit_seconds_,
                                !.countdown_timer_ = TRUE]
                       ELSE s2
             IN  NextItem(s3, index)

\* Faulty variant: the start that asks for the last item again when there was
\* one.
StartTraining_KeepsLastItem(s, index) ==
    LET s0 == IF s.items_ = <<>> THEN FilterItemsByDifficulty(s) ELSE s
    IN  IF s0.items_ = <<>>
        THEN s0
        ELSE LET s1 == UpdateErrorLabel(
                        [s0 EXCEPT !.rounds_total_ = 0, !.rounds_correct_ = 0,
                                   !.training_ = TRUE, !.paused_ = FALSE,
                                   !.sequence_pos_ = 0, !.paused_elapsed_ = 0],
                        "")
                 s2 == [s1 EXCEPT !.elapsed_ = [valid |-> TRUE, ms |-> 0],
                                  !.start_button_ = FALSE,
                                  !.stop_button_ = TRUE,
                                  !.pause_button_ = TRUE,
                                  !.settings_button_ = FALSE,
                                  !.history_button_ = FALSE]
                 s3 == IF s2.mode_ = kTimed
                       THEN [s2 EXCEPT
                                !.remaining_seconds_ = s2.time_limit_seconds_,
                                !.countdown_timer_ = TRUE]
                       ELSE s2
             IN  IF s3.current_index_ >= 0
                 THEN ShowCurrentItem(s3)
                 ELSE NextItem(s3, index)

StartTraining(s, index) ==
    LET s0 == IF s.items_ = <<>> THEN FilterItemsByDifficulty(s) ELSE s
    IN  IF s0.items_ = <<>>
        THEN s0
        ELSE LET s1 == UpdateErrorLabel(
                        [s0 EXCEPT !.rounds_total_ = 0, !.rounds_correct_ = 0,
                                   !.training_ = TRUE, !.paused_ = FALSE,
                                   !.sequence_pos_ = 0, !.paused_elapsed_ = 0],
                        "")
                 s2 == [s1 EXCEPT !.elapsed_ = [valid |-> TRUE, ms |-> 0],
                                  !.start_button_ = FALSE,
                                  !.stop_button_ = TRUE,
                                  !.pause_button_ = TRUE,
                                  !.settings_button_ = FALSE,
                                  !.history_button_ = FALSE]
                 s3 == IF s2.mode_ = kTimed
                       THEN [s2 EXCEPT
                                !.remaining_seconds_ = s2.time_limit_seconds_,
                                !.countdown_timer_ = TRUE]
                       ELSE s2
             IN  NextItem(s3, index)

\* Faulty variant: the pause that leaves the countdown running.
PauseTraining_LeavesCountdown(s) ==
    IF ~s.training_ \/ s.paused_
    THEN s
    ELSE [s EXCEPT !.paused_ = TRUE,
                   !.paused_elapsed_ = s.elapsed_.ms,
                   !.target_label_ = "Paused"]

PauseTraining(s) ==
    IF ~s.training_ \/ s.paused_
    THEN s
    ELSE [s EXCEPT !.paused_ = TRUE,
                   !.paused_elapsed_ = s.elapsed_.ms,
                   !.countdown_timer_ = FALSE,
                   !.target_label_ = "Paused"]

\* Faulty variant: the resume that starts the countdown over.
ResumeTraining_RefillsCountdown(s) ==
    IF ~s.training_ \/ ~s.paused_
    THEN s
    ELSE LET s1 == [s EXCEPT !.paused_ = FALSE,
                             !.elapsed_ = [valid |-> TRUE, ms |-> 0]]
             s2 == IF s1.mode_ = kTimed
                   THEN [s1 EXCEPT
                            !.remaining_seconds_ = s1.time_limit_seconds_,
                            !.countdown_timer_ = TRUE]
                   ELSE s1
         IN  ShowCurrentItem(s2)

\* Faulty variant: the resume that does not start the countdown again.
ResumeTraining_CountdownStaysOff(s) ==
    IF ~s.training_ \/ ~s.paused_
    THEN s
    ELSE ShowCurrentItem([s EXCEPT !.paused_ = FALSE,
                                   !.elapsed_ = [valid |-> TRUE, ms |-> 0]])

\* Faulty variant: the resume that starts the sequence over, as the label
\* it shows does.
ResumeTraining_RestartsSequence(s) ==
    IF ~s.training_ \/ ~s.paused_
    THEN s
    ELSE LET s1 == [s EXCEPT !.paused_ = FALSE,
                             !.sequence_pos_ = 0,
                             !.elapsed_ = [valid |-> TRUE, ms |-> 0]]
             s2 == IF s1.mode_ = kTimed
                   THEN [s1 EXCEPT !.countdown_timer_ = TRUE]
                   ELSE s1
         IN  ShowCurrentItem(s2)

ResumeTraining(s) ==
    IF ~s.training_ \/ ~s.paused_
    THEN s
    ELSE LET s1 == [s EXCEPT !.paused_ = FALSE,
                             !.elapsed_ = [valid |-> TRUE, ms |-> 0]]
             s2 == IF s1.mode_ = kTimed
                   THEN [s1 EXCEPT !.countdown_timer_ = TRUE]
                   ELSE s1
         IN  ShowCurrentItem(s2)

\* Faulty variant: the countdown that goes on while the session is paused.
OnTimerTick_TicksWhilePaused(s) ==
    IF ~s.training_
    THEN s
    ELSE IF s.mode_ = kTimed
         THEN LET s1 == [s EXCEPT !.remaining_seconds_ = @ - 1]
              IN  IF s1.remaining_seconds_ <= 0
                  THEN [StopTraining(s1) EXCEPT !.target_label_ = "Time's up!"]
                  ELSE s1
         ELSE s

\* Faulty variant: the countdown that stops one tick late.
OnTimerTick_OneLate(s) ==
    IF ~s.training_ \/ s.paused_
    THEN s
    ELSE IF s.mode_ = kTimed
         THEN LET s1 == [s EXCEPT !.remaining_seconds_ = @ - 1]
              IN  IF s1.remaining_seconds_ < 0
                  THEN [StopTraining(s1) EXCEPT !.target_label_ = "Time's up!"]
                  ELSE s1
         ELSE s

OnTimerTick(s) ==
    IF ~s.training_ \/ s.paused_
    THEN s
    ELSE IF s.mode_ = kTimed
         THEN LET s1 == [s EXCEPT !.remaining_seconds_ = @ - 1]
              IN  IF s1.remaining_seconds_ <= 0
                  THEN [StopTraining(s1) EXCEPT !.target_label_ = "Time's up!"]
                  ELSE s1
         ELSE s

\* Faulty variant: the completion that waits for one round past the target.
ChallengeCompletion_PastTarget(s) ==
    IF s.mode_ = kChallenge /\ s.rounds_correct_ > s.target_rounds_
    THEN [StopTraining(s) EXCEPT !.target_label_ = "Challenge complete!"]
    ELSE s

\* if (mode_ == kChallenge && rounds_correct_ >= target_rounds_) { ... }
ChallengeCompletion(s) ==
    IF s.mode_ = kChallenge /\ s.rounds_correct_ >= s.target_rounds_
    THEN [StopTraining(s) EXCEPT !.target_label_ = "Challenge complete!"]
    ELSE s

IsCurrentItemAltF4(s) ==
    IF ~s.training_ \/ s.current_index_ < 0 \/ s.current_index_ >= Len(s.items_)
    THEN FALSE
    ELSE LET item == ItemAt(s, s.current_index_)
         IN  /\ item.type = kCombo
             /\ item.key = Key_F4
             /\ item.modifiers \cap AltModifier # {}

\* ------------------------------------------------------------- key events

\* A QKeyEvent: key(), text() and modifiers().
KeyEvent(key, text, modifiers) ==
    [key |-> key, text |-> text, modifiers |-> modifiers]

\* "Error: expected '%1', got '%2'"
ExpectedGotText(expected, ch) ==
    "Error: expected '" \o expected \o "', got '" \o ch \o "'"

\* "Error: press %1"
PressText(label) == "Error: press " \o label

CloseWarningText == "Warning: system close is disabled while training."

\* Faulty variant: the mask that lets the keypad bit through.
MaskModifiers_KeepsKeypad(modifiers) ==
    modifiers \cap
        (ControlModifier \cup ShiftModifier \cup AltModifier \cup MetaModifier
         \cup KeypadModifier)

\* event->modifiers() & (Control | Shift | Alt | Meta)
MaskModifiers(modifiers) ==
    modifiers \cap
        (ControlModifier \cup ShiftModifier \cup AltModifier \cup MetaModifier)

\* key == item.key && mods == item.modifiers
ComboMatches(item, event) ==
    /\ event.key = item.key
    /\ MaskModifiers(event.modifiers) = item.modifiers

\* key == item.key
\* Faulty variant: the special key has to come without modifiers.
SpecialKeyMatches_Unmodified(item, event) ==
    event.key = item.key /\ event.modifiers = NoModifier

SpecialKeyMatches(item, event) == event.key = item.key

\* Faulty variant: the comparison of the character is forgotten.
SingleKeyMatches_AnyChar(item, ch) == item.sequence # <<>>

\* !item.sequence.isEmpty() && ch == expected
SingleKeyMatches(item, ch) ==
    /\ item.sequence # <<>>
    /\ ch = item.sequence[1]

\* Faulty variant: a match is counted as an attempt only.
JudgeRound_ForgetsCorrect(s, matches, error_text, index) ==
    LET s1 == [s EXCEPT !.rounds_total_ = @ + 1]
        s2 == IF matches
              THEN NextItem(UpdateErrorLabel(s1, ""), index)
              ELSE UpdateErrorLabel(s1, error_text)
    IN  ChallengeCompletion(s2)

\* Faulty variant: a matched round is not added to rounds_total_.
JudgeRound_CountsMissesOnly(s, matches, error_text, index) ==
    LET s2 == IF matches
              THEN NextItem(
                      UpdateErrorLabel(
                          [s EXCEPT !.rounds_correct_ = @ + 1], ""),
                      index)
              ELSE UpdateErrorLabel([s EXCEPT !.rounds_total_ = @ + 1],
                                    error_text)
    IN  ChallengeCompletion(s2)

\* Faulty variant: the Zen mode, which shows no statistics, counts no rounds.
JudgeRound_ZenCountsNothing(s, matches, error_text, index) ==
    LET s1 == IF s.mode_ = kZen THEN s ELSE [s EXCEPT !.rounds_total_ = @ + 1]
        s2 == IF matches
              THEN NextItem(
                      UpdateErrorLabel(
                          IF s.mode_ = kZen
                          THEN s1
                          ELSE [s1 EXCEPT !.rounds_correct_ = @ + 1], ""),
                      index)
              ELSE UpdateErrorLabel(s1, error_text)
    IN  ChallengeCompletion(s2)

\* The round of a single key, a combo or a special key: count it, then
\* advance on a match or show the error.
JudgeRound(s, matches, error_text, index) ==
    LET s1 == [s EXCEPT !.rounds_total_ = @ + 1]
        s2 == IF matches
              THEN NextItem(
                      UpdateErrorLabel(
                          [s1 EXCEPT !.rounds_correct_ = @ + 1], ""),
                      index)
              ELSE UpdateErrorLabel(s1, error_text)
    IN  ChallengeCompletion(s2)

SingleKeyCase(s, item, event, index) ==
    LET text == ToLower(event.text)
    IN  IF text = <<>>
        THEN s
        ELSE LET ch == text[1]
                 expected == IF item.sequence = <<>> THEN "" ELSE item.sequence[1]
             IN  JudgeRound(s, SingleKeyMatches(item, ch),
                            ExpectedGotText(expected, ch), index)

\* Faulty variant: the combo case that judges the close-intent item too.
ComboCase_JudgesCloseIntent(s, item, event, index) ==
    JudgeRound(s, ComboMatches(item, event), PressText(item.label), index)

ComboCase(s, item, event, index) ==
    IF IsCurrentItemAltF4(s)
    THEN s
    ELSE JudgeRound(s, ComboMatches(item, event), PressText(item.label), index)

SpecialKeyCase(s, item, event, index) ==
    JudgeRound(s, SpecialKeyMatches(item, event), PressText(item.label), index)

\* Faulty variant: every character typed right is counted as a round.
SequenceHit_CountsEveryKey(s, item, index) ==
    LET s1 == UpdateErrorLabel(
                [s EXCEPT !.sequence_pos_ = @ + 1,
                          !.rounds_total_ = @ + 1,
                          !.rounds_correct_ = @ + 1], "")
    IN  IF s1.sequence_pos_ >= Len(item.sequence)
        THEN NextItem(s1, index)
        ELSE [s1 EXCEPT !.target_label_ =
                SequenceDisplay(item.label, s1.sequence_pos_,
                                Len(item.sequence))]

\* ch == expected: one more character of the sequence is typed.
SequenceHit(s, item, index) ==
    LET s1 == UpdateErrorLabel([s EXCEPT !.sequence_pos_ = @ + 1], "")
    IN  IF s1.sequence_pos_ >= Len(item.sequence)
        THEN NextItem([s1 EXCEPT !.rounds_total_ = @ + 1,
                                 !.rounds_correct_ = @ + 1],
                      index)
        ELSE [s1 EXCEPT !.target_label_ =
                SequenceDisplay(item.label, s1.sequence_pos_,
                                Len(item.sequence))]

\* Faulty variant: a wrong character leaves the progress where it was.
SequenceMiss_KeepsProgress(s, item, expected, ch) ==
    UpdateErrorLabel([s EXCEPT !.rounds_total_ = @ + 1],
                     ExpectedGotText(expected, ch))

\* ch != expected: a failed attempt, the sequence restarts.
SequenceMiss(s, item, expected, ch) ==
    [UpdateErrorLabel([s EXCEPT !.rounds_total_ = @ + 1],
                      ExpectedGotText(expected, ch))
     EXCEPT !.sequence_pos_ = 0,
            !.target_label_ =
                SequenceDisplay(item.label, 0, Len(item.sequence))]

\* Faulty variant: a key event without text is a failed attempt.
SequenceCase_JudgesEmptyText(s, item, event, index) ==
    LET text == ToLower(event.text)
        seq == item.sequence
    IN  IF seq = <<>>
        THEN s
        ELSE LET s0 == IF s.sequence_pos_ < 0 \/ s.sequence_pos_ >= Len(seq)
                       THEN [s EXCEPT !.sequence_pos_ = 0]
                       ELSE s
                 expected == seq[s0.sequence_pos_ + 1]
                 ch == IF text = <<>> THEN "" ELSE text[1]
             IN  ChallengeCompletion(
                    IF ch = expected
                    THEN SequenceHit(s0, item, index)
                    ELSE SequenceMiss(s0, item, expected, ch))

SequenceCase(s, item, event, index) ==
    LET text == ToLower(event.text)
        seq == item.sequence
    IN  IF text = <<>> \/ seq = <<>>
        THEN s
        ELSE LET s0 == IF s.sequence_pos_ < 0 \/ s.sequence_pos_ >= Len(seq)
                       THEN [s EXCEPT !.sequence_pos_ = 0]
                       ELSE s
                 expected == seq[s0.sequence_pos_ + 1]
                 ch == text[1]
             IN  ChallengeCompletion(
                    IF ch = expected
                    THEN SequenceHit(s0, item, index)
                    ELSE SequenceMiss(s0, item, expected, ch))

\* Faulty variant: Meta is not among the swallowed keys.
PureModifierKeys_WithoutMeta == {Key_Shift, Key_Control, Key_Alt}

PureModifierKeys == {Key_Shift, Key_Control, Key_Alt, Key_Meta}

keyPressEvent(s, event, index) ==
    IF s.paused_ /\ event.key = Key_Space
    THEN ResumeTraining(s)
    ELSE IF ~s.training_ \/ s.paused_
    THEN s
    ELSE IF \/ s.items_ = <<>>
            \/ s.current_index_ < 0
            \/ s.current_index_ >= Len(s.items_)
    THEN s
    ELSE IF event.key \in PureModifierKeys
    THEN s
    ELSE IF event.key = Key_Escape
    THEN StopTraining(s)
    ELSE LET item == ItemAt(s, s.current_index_)
         IN  CASE item.type = kSingleKey -> SingleKeyCase(s, item, event, index)
               [] item.type = kCombo -> ComboCase(s, item, event, index)
               [] item.type = kSpecialKey ->
                    SpecialKeyCase(s, item, event, index)
               [] item.type = kSequence -> SequenceCase(s, item, event, index)

\* ------------------------------------------------------------- persistence

Settings(s) ==
    [difficulty |-> s.difficulty_, mode |-> s.mode_,
     time_limit |-> s.time_limit_seconds_,
     target_rounds |-> s.target_rounds_,
     dark_theme |-> s.dark_theme_, sound |-> s.sound_enabled_,
     keyboard |-> s.show_keyboard_,
     custom_single |-> s.custom_single_keys_,
     custom_special |-> s.custom_special_keys_,
     custom_combo |-> s.custom_combos_,
     custom_sequence |-> s.custom_sequences_]

\* Faulty variant: the save that leaves the stored mode as it was.
SaveSettings_KeepsStoredMode(s) ==
    [s EXCEPT !.settings_store_ =
        [Settings(s) EXCEPT !.mode = s.settings_store_.mode]]

SaveSettings(s) == [s EXCEPT !.settings_store_ = Settings(s)]

LoadSettings(s) ==
    [s EXCEPT !.difficulty_ = s.settings_store_.difficulty,
              !.mode_ = s.settings_store_.mode,
              !.time_limit_seconds_ = s.settings_store_.time_limit,
              !.target_rounds_ = s.settings_store_.target_rounds,
              !.dark_theme_ = s.settings_store_.dark_theme,
              !.sound_enabled_ = s.settings_store_.sound,
              !.show_keyboard_ = s.settings_store_.keyboard,
              !.custom_single_keys_ = s.settings_store_.custom_single,
              !.custom_special_keys_ = s.settings_store_.custom_special,
              !.custom_combos_ = s.settings_store_.custom_combo,
              !.custom_sequences_ = s.settings_store_.custom_sequence]

\* ------------------------------------------------------------ close request

\* Faulty variant: the close-intent match without the Challenge check.
closeEvent_SkipsCompletion(s, index) ==
    IF s.training_
    THEN IF IsCurrentItemAltF4(s)
         THEN NextItem(
                 UpdateErrorLabel(
                     [s EXCEPT !.rounds_total_ = @ + 1,
                               !.rounds_correct_ = @ + 1],
                     ""),
                 index)
         ELSE UpdateErrorLabel(s, CloseWarningText)
    ELSE [SaveSettings(s) EXCEPT !.closed_ = TRUE]

\* Faulty variant: a paused session does not block the close.
closeEvent_ClosesWhilePaused(s, index) ==
    IF s.training_ /\ ~s.paused_
    THEN IF IsCurrentItemAltF4(s)
         THEN ChallengeCompletion(
                 NextItem(
                     UpdateErrorLabel(
                         [s EXCEPT !.rounds_total_ = @ + 1,
                                   !.rounds_correct_ = @ + 1],
                         ""),
                     index))
         ELSE UpdateErrorLabel(s, CloseWarningText)
    ELSE [SaveSettings(s) EXCEPT !.closed_ = TRUE]

\* Faulty variant: the close-intent match is not counted as an attempt.
closeEvent_CountsCorrectOnly(s, index) ==
    IF s.training_
    THEN IF IsCurrentItemAltF4(s)
         THEN ChallengeCompletion(
                 NextItem(
                     UpdateErrorLabel(
                         [s EXCEPT !.rounds_correct_ = @ + 1],
                         ""),
                     index))
         ELSE UpdateErrorLabel(s, CloseWarningText)
    ELSE [SaveSettings(s) EXCEPT !.closed_ = TRUE]

\* closed_ is TRUE when the event is accepted (QMainWindow::closeEvent).
closeEvent(s, index) ==
    IF s.training_
    THEN IF IsCurrentItemAltF4(s)
         THEN ChallengeCompletion(
                 NextItem(
                     UpdateErrorLabel(
                         [s EXCEPT !.rounds_total_ = @ + 1,
                                   !.rounds_correct_ = @ + 1],
                         ""),
                     index))
         ELSE UpdateErrorLabel(s, CloseWarningText)
    ELSE [SaveSettings(s) EXCEPT !.closed_ = TRUE]

\* ---------------------------------------------------------- settings pages

ShowSettings(s) == [s EXCEPT !.stacked_widget_ = "settings_page_"]

ShowTraining(s) ==
    [FilterItemsByDifficulty(s) EXCEPT !.stacked_widget_ = "training_page_"]

OnDifficultyChanged(s, difficulty) ==
    FilterItemsByDifficulty([s EXCEPT !.difficulty_ = difficulty])

OnModeChanged(s, mode) == [s EXCEPT !.mode_ = mode]

CustomSingleToggled(s, checked) ==
    FilterItemsByDifficulty([s EXCEPT !.custom_single_keys_ = checked])

CustomSpecialToggled(s, checked) ==
    FilterItemsByDifficulty([s EXCEPT !.custom_special_keys_ = checked])

CustomComboToggled(s, checked) ==
    FilterItemsByDifficulty([s EXCEPT !.custom_combos_ = checked])

CustomSequenceToggled(s, checked) ==
    FilterItemsByDifficulty([s EXCEPT !.custom_sequences_ = checked])

\* sound_check_'s toggled
SoundToggled(s, checked) == [s EXCEPT !.sound_enabled_ = checked]

\* keyboard_check_'s toggled
KeyboardToggled(s, checked) == [s EXCEPT !.show_keyboard_ = checked]

\* time_spin_'s valueChanged
TimeLimitChanged(s, value) == [s EXCEPT !.time_limit_seconds_ = value]

\* rounds_spin_'s valueChanged
TargetRoundsChanged(s, value) == [s EXCEPT !.target_rounds_ = value]

ToggleTheme(s) == [s EXCEPT !.dark_theme_ = ~s.dark_theme_]

\* ------------------------------------------------------------ construction

\* What the settings store holds when the window is constructed: the custom
\* difficulty with one kind of item enabled, and any mode.
StoredDifficulty == {kCustom}

StoredCustom ==
    { <<TRUE, FALSE, FALSE, FALSE>>, <<FALSE, TRUE, FALSE, FALSE>>,
      <<FALSE, FALSE, TRUE, FALSE>>, <<FALSE, FALSE, FALSE, TRUE>> }

StoredSettings ==
    { [difficulty |-> d, mode |-> m, time_limit |-> StoredTimeLimit,
       target_rounds |-> StoredTargetRounds,
       dark_theme |-> TRUE, sound |-> TRUE, keyboard |-> TRUE,
       custom_single |-> c[1], custom_special |-> c[2],
       custom_combo |-> c[3], custom_sequence |-> c[4]] :
        d \in StoredDifficulty, m \in TrainingMode, c \in StoredCustom }

\* The member initialisers of trainer_window.h and the widgets as the Setup
\* functions leave them, with the settings store as found.
Members(stored) ==
    [items_ |-> <<>>, current_index_ |-> -1, sequence_pos_ |-> 0,
     training_ |-> FALSE, paused_ |-> FALSE,
     rounds_total_ |-> 0, rounds_correct_ |-> 0,
     target_rounds_ |-> 50, time_limit_seconds_ |-> 60,
     remaining_seconds_ |-> 0,
     difficulty_ |-> kIntermediate, mode_ |-> kEndless,
     custom_single_keys_ |-> TRUE, custom_special_keys_ |-> TRUE,
     custom_combos_ |-> TRUE, custom_sequences_ |-> TRUE,
     elapsed_ |-> [valid |-> FALSE, ms |-> 0],
     countdown_timer_ |-> FALSE, paused_elapsed_ |-> 0,
     history_ |-> <<>>,
     error_label_ |-> "", target_label_ |-> "Click \"Start\" to begin",
     start_button_ |-> TRUE, stop_button_ |-> FALSE,
     pause_button_ |-> FALSE, settings_button_ |-> TRUE,
     history_button_ |-> TRUE, total_sessions_label_ |-> 0,
     best_speed_label_ |-> -1, best_accuracy_label_ |-> -1,
     dark_theme_ |-> TRUE, sound_enabled_ |-> TRUE, show_keyboard_ |-> TRUE,
     stacked_widget_ |-> "training_page_",
     settings_store_ |-> stored, closed_ |-> FALSE]

\* TrainerWindow::TrainerWindow
TrainerWindow(stored) == FilterItemsByDifficulty(LoadSettings(Members(stored)))

\* The window is in state s.
Is(s) ==
    \E r \in {s} :
        /\ items_ = r.items_
        /\ current_index_ = r.current_index_
        /\ sequence_pos_ = r.sequence_pos_
        /\ training_ = r.training_
        /\ paused_ = r.paused_
        /\ rounds_total_ = r.rounds_total_
        /\ rounds_correct_ = r.rounds_correct_
        /\ target_rounds_ = r.target_rounds_
        /\ time_limit_seconds_ = r.time_limit_seconds_
        /\ remaining_seconds_ = r.remaining_seconds_
        /\ difficulty_ = r.difficulty_
        /\ mode_ = r.mode_
        /\ custom_single_keys_ = r.custom_single_keys_
        /\ custom_special_keys_ = r.custom_special_keys_
        /\ custom_combos_ = r.custom_combos_
        /\ custom_sequences_ = r.custom_sequences_
        /\ elapsed_ = r.elapsed_
        /\ countdown_timer_ = r.countdown_timer_
        /\ paused_elapsed_ = r.paused_elapsed_
        /\ history_ = r.history_
        /\ error_label_ = r.error_label_
        /\ target_label_ = r.target_label_
        /\ start_button_ = r.start_button_
        /\ stop_button_ = r.stop_button_
        /\ pause_button_ = r.pause_button_
        /\ settings_button_ = r.settings_button_
        /\ history_button_ = r.history_button_
        /\ total_sessions_label_ = r.total_sessions_label_
        /\ best_speed_label_ = r.best_speed_label_
        /\ best_accuracy_label_ = r.best_accuracy_label_
        /\ dark_theme_ = r.dark_theme_
        /\ sound_enabled_ = r.sound_enabled_
        /\ show_keyboard_ = r.show_keyboard_
        /\ stacked_widget_ = r.stacked_widget_
        /\ settings_store_ = r.settings_store_
        /\ closed_ = r.closed_

Init == \E stored \in StoredSettings : Is(TrainerWindow(stored))

\* ------------------------------------------------------------------ events

\* The key events the input source delivers.
KeyEvents ==
    { KeyEvent(LetterKey("q"), <<"q">>, NoModifier),
      KeyEvent(LetterKey("a"), <<"a">>, NoModifier),
      KeyEvent(Key_0 + 1, <<"1">>, NoModifier),
      KeyEvent(LetterKey("q"), <<"Q">>, ShiftModifier),
      KeyEvent(Key_Space, <<" ">>, NoModifier),
      KeyEvent(Key_Space, <<" ">>, ShiftModifier),
      KeyEvent(Key_F4, <<>>, NoModifier),
      KeyEvent(Key_F4, <<>>, AltModifier),
      KeyEvent(LetterKey("s"), <<>>, ControlModifier),
      KeyEvent(LetterKey("s"), <<>>, ControlModifier \cup ShiftModifier),
      KeyEvent(Key_0 + 1, <<>>, ControlModifier),
      KeyEvent(Key_0 + 1, <<>>, ControlModifier \cup KeypadModifier),
      KeyEvent(Key_Escape, <<"^[">>, NoModifier),
      KeyEvent(Key_Shift, <<>>, ShiftModifier),
      KeyEvent(Key_Control, <<>>, ControlModifier),
      KeyEvent(Key_Alt, <<>>, AltModifier),
      KeyEvent(Key_Meta, <<>>, MetaModifier) }

\* bounded(items_.size()): every index of the working set.  A handler that
\* leaves the same state for the draws 0 and 1 did not draw at all (NextItem
\* stores the draw in current_index_), and one draw stands for all of them.
RandomIndexes(with0, with1) ==
    IF with0 = with1 THEN {0} ELSE 0..(Len(items_) - 1)

RECURSIVE RecordedRounds(_)
RecordedRounds(history) ==
    IF history = <<>>
    THEN 0
    ELSE Head(history).total_rounds + RecordedRounds(Tail(history))

\* The rounds played so far, those of the running session included.
RoundsPlayed ==
    RecordedRounds(history_) + (IF training_ THEN rounds_total_ ELSE 0)

\* The user clicks Start (on the training page, while the button is enabled).
ClickStart ==
    /\ ~closed_
    /\ start_button_
    /\ stacked_widget_ = "training_page_"
    /\ RoundsPlayed < MaxRounds
    /\ \E index \in RandomIndexes(StartTraining(State, 0),
                                   StartTraining(State, 1)) :
            Becomes(StartTraining(State, index))

ClickStop ==
    /\ ~closed_
    /\ stop_button_
    /\ stacked_widget_ = "training_page_"
    /\ Becomes(StopTraining(State))

\* The pause button's lambda: resume when paused, pause otherwise.
ClickPause ==
    /\ ~closed_
    /\ pause_button_
    /\ stacked_widget_ = "training_page_"
    /\ Becomes(IF paused_ THEN ResumeTraining(State) ELSE PauseTraining(State))

\* The states keyPressEvent can leave for the event, one for each draw.
KeyOutcomes(event) ==
    { keyPressEvent(State, event, index) :
        index \in RandomIndexes(keyPressEvent(State, event, 0),
                                keyPressEvent(State, event, 1)) }

KeyPress(event) ==
    /\ ~closed_
    /\ training_ => RoundsPlayed < MaxRounds
    /\ \E r \in KeyOutcomes(event) : Becomes(r)

\* The states closeEvent can leave, one for each draw.
CloseOutcomes ==
    { closeEvent(State, index) :
        index \in RandomIndexes(closeEvent(State, 0), closeEvent(State, 1)) }

CloseRequest ==
    /\ ~closed_
    /\ training_ => RoundsPlayed < MaxRounds
    /\ \E r \in CloseOutcomes : Becomes(r)

\* countdown_timer_ times out.
TimerTick ==
    /\ ~closed_
    /\ countdown_timer_
    /\ Becomes(OnTimerTick(State))

Next ==
    \/ ClickStart
    \/ ClickStop
    \/ ClickPause
    \/ \E event \in KeyEvents : KeyPress(event)
    \/ CloseRequest
    \/ TimerTick

Spec == Init /\ [][Next]_vars

\* ------------------------------------------------------- the settings page

\* The settings button's click: ShowSettings.
ClickSettings ==
    /\ ~closed_
    /\ settings_button_
    /\ stacked_widget_ = "training_page_"
    /\ Becomes(ShowSettings(State))

\* The settings page's back button: ShowTraining.
ClickBack ==
    /\ ~closed_
    /\ stacked_widget_ = "settings_page_"
    /\ Becomes(ShowTraining(State))

\* difficulty_combo_'s currentIndexChanged: another entry is selected.
SelectDifficulty ==
    /\ ~closed_
    /\ stacked_widget_ = "settings_page_"
    /\ \E difficulty \in Difficulty \ {difficulty_} :
            Becomes(OnDifficultyChanged(State, difficulty))

\* mode_combo_'s currentIndexChanged: another entry is selected.
SelectMode ==
    /\ ~closed_
    /\ stacked_widget_ = "settings_page_"
    /\ \E mode \in TrainingMode \ {mode_} :
            Becomes(OnModeChanged(State, mode))

\* The four check boxes of custom_options_widget_, shown for kCustom only;
\* a click toggles the box, which was set from the member at setup.
ToggleCustomSingle ==
    /\ ~closed_
    /\ stacked_widget_ = "settings_page_"
    /\ difficulty_ = kCustom
    /\ Becomes(CustomSingleToggled(State, ~custom_single_keys_))

ToggleCustomSpecial ==
    /\ ~closed_
    /\ stacked_widget_ = "settings_page_"
    /\ difficulty_ = kCustom
    /\ Becomes(CustomSpecialToggled(State, ~custom_special_keys_))

ToggleCustomCombo ==
    /\ ~closed_
    /\ stacked_widget_ = "settings_page_"
    /\ difficulty_ = kCustom
    /\ Becomes(CustomComboToggled(State, ~custom_combos_))

ToggleCustomSequence ==
    /\ ~closed_
    /\ stacked_widget_ = "settings_page_"
    /\ difficulty_ = kCustom
    /\ Becomes(CustomSequenceToggled(State, ~custom_sequences_))

\* The window between sessions: the settings page and the close request.
NextSettings ==
    \/ ClickSettings
    \/ ClickBack
    \/ SelectDifficulty
    \/ SelectMode
    \/ ToggleCustomSingle
    \/ ToggleCustomSpecial
    \/ ToggleCustomCombo
    \/ ToggleCustomSequence
    \/ CloseRequest

SpecSettings == Init /\ [][NextSettings]_vars

\* ---------------------------------------------------------------- properties

\* A session is Running: active and not paused.
Running == training_ /\ ~paused_

\* The indexes NextItem can draw.
Draws == 0..(Len(items_) - 1)

\* The item the session is asking for (while current_index_ is an index).
CurrentItem == ItemAt(State, current_index_)

\* Only the working set of one kind is in play.
OnlyKind(single, special, combos, sequences) ==
    /\ difficulty_ = kCustom
    /\ custom_single_keys_ = single
    /\ custom_special_keys_ = special
    /\ custom_combos_ = combos
    /\ custom_sequences_ = sequences

\* The close-intent combination as the specification names it.
IsCloseIntent(item) ==
    /\ item.type = kCombo
    /\ item.key = Key_F4
    /\ item.modifiers = AltModifier

\* The first character of the event's text, lowercased ("" when it has none).
TypedChar(event) ==
    IF event.text = <<>> THEN "" ELSE CharToLower(event.text[1])

\* The four modifiers a combination is compared on.
ComparedModifiers ==
    ControlModifier \cup ShiftModifier \cup AltModifier \cup MetaModifier

\* The match rule of the specification for the three one-event kinds.
EventMatchesItem(item, event) ==
    CASE item.type = kSingleKey ->
            TypedChar(event) # "" /\ TypedChar(event) = item.sequence[1]
      [] item.type = kSpecialKey -> event.key = item.key
      [] item.type = kCombo ->
            /\ event.key = item.key
            /\ event.modifiers \cap ComparedModifiers = item.modifiers
      [] OTHER -> FALSE

\* The event is judged against a SingleKey, SpecialKey or Combo item other
\* than the close-intent combination: it is no pure modifier and no Escape,
\* and against a SingleKey item it produces text.
EventIsJudged(item, event) ==
    /\ event.key \notin {Key_Shift, Key_Control, Key_Alt, Key_Meta, Key_Escape}
    /\ item.type \in {kSingleKey, kSpecialKey, kCombo}
    /\ ~IsCloseIntent(item)
    /\ item.type = kSingleKey => event.text # <<>>

\* C1: in a Running session whose current item is a SingleKey, a SpecialKey
\* or a Combo other than the close-intent combination, a key event that
\* matches the item adds one to rounds_total_ and to rounds_correct_, leaves
\* sequence_pos_ at 0 and makes an index of items_ the current one, any of
\* them (the one that was current included).
C1_MatchCountsCorrectRound ==
    Running =>
        \A event \in KeyEvents :
            ( /\ EventIsJudged(CurrentItem, event)
              /\ EventMatchesItem(CurrentItem, event) )
            => /\ \A r \in KeyOutcomes(event) :
                    /\ r.rounds_total_ = rounds_total_ + 1
                    /\ r.rounds_correct_ = rounds_correct_ + 1
                    /\ r.sequence_pos_ = 0
                    /\ r.current_index_ \in 0..(Len(r.items_) - 1)
               /\ {r.current_index_ : r \in KeyOutcomes(event)} = Draws

\* A single-key-only session counted its first round as correct.
C1_Witness ==
    /\ OnlyKind(TRUE, FALSE, FALSE, FALSE)
    /\ training_
    /\ rounds_total_ = 1
    /\ rounds_correct_ = 1
    /\ error_label_ = ""

\* C2: in a Running session whose current item is a SingleKey, a SpecialKey
\* or a Combo other than the close-intent combination, a key event that is
\* neither a pure modifier nor Escape and does not match the item (against
\* a SingleKey: text whose first character is another one) adds one to
\* rounds_total_, leaves rounds_correct_, current_index_ and sequence_pos_
\* as they were, and shows a non-empty error message.
C2_MismatchCountsFailedRound ==
    Running =>
        \A event \in KeyEvents :
            ( /\ EventIsJudged(CurrentItem, event)
              /\ ~EventMatchesItem(CurrentItem, event) )
            => \A r \in KeyOutcomes(event) :
                    /\ r.rounds_total_ = rounds_total_ + 1
                    /\ r.rounds_correct_ = rounds_correct_
                    /\ r.current_index_ = current_index_
                    /\ r.sequence_pos_ = sequence_pos_
                    /\ r.error_label_ # ""

\* A special-key-only session shows the error of a wrong key and has
\* counted the attempt, with no correct round.
C2_Witness ==
    /\ OnlyKind(FALSE, TRUE, FALSE, FALSE)
    /\ training_
    /\ rounds_total_ = 1
    /\ rounds_correct_ = 0
    /\ error_label_ = PressText(CurrentItem.label)

\* C3: for a Sequence item of length n in a Running session, sequence_pos_
\* is one of 0..n-1, and the key that types the character at sequence_pos_
\* either is one of the first n-1 (the counters and the item stay,
\* sequence_pos_ goes up by one, to one of 1..n-1) or is the n-th
\* (rounds_total_ and rounds_correct_ go up by one each, sequence_pos_ is
\* back at 0 and an index of items_ is drawn): typing the n characters in
\* order from 0 is one correct round.
C3_SequenceTypedInOrder ==
    (Running /\ CurrentItem.type = kSequence) =>
        /\ sequence_pos_ \in 0..(Len(CurrentItem.sequence) - 1)
        /\ \A event \in KeyEvents :
            ( /\ TypedChar(event) # ""
              /\ TypedChar(event) = CurrentItem.sequence[sequence_pos_ + 1] )
            => IF sequence_pos_ + 1 < Len(CurrentItem.sequence)
               THEN \A r \in KeyOutcomes(event) :
                        /\ r.rounds_total_ = rounds_total_
                        /\ r.rounds_correct_ = rounds_correct_
                        /\ r.sequence_pos_ = sequence_pos_ + 1
                        /\ r.current_index_ = current_index_
               ELSE /\ \A r \in KeyOutcomes(event) :
                        /\ r.rounds_total_ = rounds_total_ + 1
                        /\ r.rounds_correct_ = rounds_correct_ + 1
                        /\ r.sequence_pos_ = 0
                        /\ r.current_index_ \in 0..(Len(r.items_) - 1)
                    /\ {r.current_index_ : r \in KeyOutcomes(event)} = Draws

\* A sequence-only session typed a whole sequence as its first round and
\* is in the middle of the next one.
C3_Witness ==
    /\ OnlyKind(FALSE, FALSE, FALSE, TRUE)
    /\ Running
    /\ rounds_total_ = 1
    /\ rounds_correct_ = 1
    /\ sequence_pos_ = Len(CurrentItem.sequence) - 1
    /\ sequence_pos_ >= 2

\* C4, as amended: for a Sequence item of a Running session at any
\* sequence_pos_ p, a key event other than Escape with non-empty text whose
\* first character is not the one at p adds one to rounds_total_, leaves
\* rounds_correct_ and current_index_ as they were and puts sequence_pos_
\* back to 0.
C4_SequenceMismatchRestarts ==
    (Running /\ CurrentItem.type = kSequence) =>
        \A event \in KeyEvents :
            ( /\ event.key # Key_Escape
              /\ TypedChar(event) # ""
              /\ TypedChar(event) # CurrentItem.sequence[sequence_pos_ + 1] )
            => \A r \in KeyOutcomes(event) :
                    /\ r.rounds_total_ = rounds_total_ + 1
                    /\ r.rounds_correct_ = rounds_correct_
                    /\ r.current_index_ = current_index_
                    /\ r.sequence_pos_ = 0

\* C4 as stated, for every key event with non-empty text: Escape has text,
\* and its first character is no character of a sequence.
C4_AsStated ==
    (Running /\ CurrentItem.type = kSequence) =>
        \A event \in KeyEvents :
            ( /\ TypedChar(event) # ""
              /\ TypedChar(event) # CurrentItem.sequence[sequence_pos_ + 1] )
            => \A r \in KeyOutcomes(event) :
                    /\ r.rounds_total_ = rounds_total_ + 1
                    /\ r.rounds_correct_ = rounds_correct_
                    /\ r.current_index_ = current_index_
                    /\ r.sequence_pos_ = 0

\* A sequence-only session whose only attempt failed on the second
\* character of the item: the error names that character as expected.
C4_Witness ==
    /\ OnlyKind(FALSE, FALSE, FALSE, TRUE)
    /\ Running
    /\ rounds_total_ = 1
    /\ rounds_correct_ = 0
    /\ sequence_pos_ = 0
    /\ CurrentItem.sequence[2] # CurrentItem.sequence[1]
    /\ \E event \in KeyEvents :
            /\ TypedChar(event) # ""
            /\ error_label_ =
                  ExpectedGotText(CurrentItem.sequence[2], TypedChar(event))

\* C5, as amended: against a Combo item other than the close-intent
\* combination, a key event of a Running session is counted as a correct
\* round if and only if its key is the item's key and its modifiers, of
\* Control, Shift, Alt and Meta, are exactly the item's: one modifier more
\* is a mismatch, and other modifier bits are ignored.
C5_ComboMatchRule ==
    (Running /\ CurrentItem.type = kCombo /\ ~IsCloseIntent(CurrentItem)) =>
        \A event \in KeyEvents :
            \A r \in KeyOutcomes(event) :
                (r.rounds_correct_ = rounds_correct_ + 1)
                <=> ( /\ event.key = CurrentItem.key
                      /\ event.modifiers \cap ComparedModifiers
                            = CurrentItem.modifiers )

\* C5 as stated, for every Combo item: the close-intent combination is not
\* matched by a key event at all.
C5_AsStated ==
    (Running /\ CurrentItem.type = kCombo) =>
        \A event \in KeyEvents :
            \A r \in KeyOutcomes(event) :
                (r.rounds_correct_ = rounds_correct_ + 1)
                <=> ( /\ event.key = CurrentItem.key
                      /\ event.modifiers \cap ComparedModifiers
                            = CurrentItem.modifiers )

\* A combo-only session asks for Ctrl+1, which the events Ctrl+1 with and
\* without the keypad bit match, after a round that a wrong combination
\* failed was followed by a correct one.
C5_Witness ==
    /\ OnlyKind(FALSE, FALSE, TRUE, FALSE)
    /\ Running
    /\ rounds_total_ = 2
    /\ rounds_correct_ = 1
    /\ CurrentItem.key = Key_0 + 1
    /\ CurrentItem.modifiers = ControlModifier

\* C6: in a Running session a key event of Shift, Control, Alt or Meta alone
\* leaves rounds_total_, rounds_correct_, current_index_, sequence_pos_,
\* training_, paused_ and the error message as they were, whatever the
\* kind of the current item.
C6_PureModifierSwallowed ==
    Running =>
        \A event \in KeyEvents :
            event.key \in {Key_Shift, Key_Control, Key_Alt, Key_Meta}
            => \A r \in KeyOutcomes(event) :
                    /\ r.rounds_total_ = rounds_total_
                    /\ r.rounds_correct_ = rounds_correct_
                    /\ r.current_index_ = current_index_
                    /\ r.sequence_pos_ = sequence_pos_
                    /\ r.training_ = training_
                    /\ r.paused_ = paused_
                    /\ r.error_label_ = error_label_

\* A Running session that shows the error of a failed attempt on a special
\* key, the state a modifier key-down then leaves as it is.
C6_Witness ==
    /\ OnlyKind(FALSE, TRUE, FALSE, FALSE)
    /\ Running
    /\ rounds_total_ = 2
    /\ rounds_correct_ = 1
    /\ error_label_ # ""
    /\ error_label_ # CloseWarningText

\* C7: in a Running session an Escape key event ends the session, whatever
\* the current item: training_ and paused_ are false, the countdown is
\* stopped, and rounds_total_ and rounds_correct_ are as they were.
C7_EscapeEndsSession ==
    Running =>
        \A event \in KeyEvents :
            event.key = Key_Escape
            => \A r \in KeyOutcomes(event) :
                    /\ ~r.training_
                    /\ ~r.paused_
                    /\ ~r.countdown_timer_
                    /\ r.rounds_total_ = rounds_total_
                    /\ r.rounds_correct_ = rounds_correct_

\* A Timed sequence-only session was ended in the middle of a sequence,
\* before its first round: nothing was counted.
C7_Witness ==
    /\ OnlyKind(FALSE, FALSE, FALSE, TRUE)
    /\ mode_ = kTimed
    /\ ~training_
    /\ ~paused_
    /\ ~countdown_timer_
    /\ target_label_ = "Stopped"
    /\ sequence_pos_ > 0
    /\ rounds_total_ = 0
    /\ rounds_correct_ = 0

\* C8: a close request that arrives while a session is active and the
\* current item is the close-intent combination adds one to rounds_total_
\* and to rounds_correct_, draws an index of items_ (with sequence_pos_ 0),
\* does not close the window, and ends the session exactly when the mode is
\* Challenge and rounds_correct_ has then reached target_rounds_.
C8_CloseIntentCountsCorrect ==
    (training_ /\ IsCloseIntent(CurrentItem)) =>
        /\ \A r \in CloseOutcomes :
            /\ r.rounds_total_ = rounds_total_ + 1
            /\ r.rounds_correct_ = rounds_correct_ + 1
            /\ r.current_index_ \in 0..(Len(r.items_) - 1)
            /\ r.sequence_pos_ = 0
            /\ ~r.closed_
            /\ r.training_ =
                  ~(mode_ = kChallenge /\ rounds_correct_ + 1 >= target_rounds_)
        /\ {r.current_index_ : r \in CloseOutcomes} = Draws

\* A paused combo-only session shows an item instead of the pause text and
\* has a correct round: only the close request on Alt+F4 does that.
C8_Witness ==
    /\ OnlyKind(FALSE, FALSE, TRUE, FALSE)
    /\ training_
    /\ paused_
    /\ target_label_ = CurrentItem.label
    /\ rounds_total_ = 1
    /\ rounds_correct_ = 1

\* C9: while a session is active, Running or Paused, the close request does
\* not close the window, and when the current item is not the close-intent
\* combination it sets the warning and leaves rounds_total_,
\* rounds_correct_, current_index_ and sequence_pos_ as they were; while no
\* session is active the close request closes the window.
C9_CloseOnlyWithoutSession ==
    \A r \in CloseOutcomes :
        /\ r.closed_ <=> ~training_
        /\ (training_ /\ ~IsCloseIntent(CurrentItem)) =>
                /\ r.error_label_ = CloseWarningText
                /\ r.rounds_total_ = rounds_total_
                /\ r.rounds_correct_ = rounds_correct_
                /\ r.current_index_ = current_index_
                /\ r.sequence_pos_ = sequence_pos_

\* A paused session shows the warning of a blocked close request.
C9_Witness ==
    /\ training_
    /\ paused_
    /\ ~closed_
    /\ ~IsCloseIntent(CurrentItem)
    /\ error_label_ = CloseWarningText

\* C10: the working set is never empty, and FilterItemsByDifficulty leaves
\* it non-empty for every difficulty and every setting of the four custom
\* toggles.
C10_WorkingSetNeverEmpty ==
    /\ items_ # <<>>
    /\ \A difficulty \in Difficulty :
       \A single \in BOOLEAN, special \in BOOLEAN :
       \A combos \in BOOLEAN, sequences \in BOOLEAN :
            FilterItemsByDifficulty(
                [State EXCEPT !.difficulty_ = difficulty,
                              !.custom_single_keys_ = single,
                              !.custom_special_keys_ = special,
                              !.custom_combos_ = combos,
                              !.custom_sequences_ = sequences]).items_ # <<>>

\* Custom with the four toggles off: the filter fell back to the catalog.
C10_Witness ==
    /\ OnlyKind(FALSE, FALSE, FALSE, FALSE)
    /\ Len(items_) = Len(all_items_)

\* The kinds whose custom toggle is on.
EnabledKinds ==
    {kind \in TrainingType :
        \/ kind = kSingleKey /\ custom_single_keys_
        \/ kind = kSpecialKey /\ custom_special_keys_
        \/ kind = kCombo /\ custom_combos_
        \/ kind = kSequence /\ custom_sequences_}

\* The filter rule of the specification for the settings of the state.
InWorkingSet(item) ==
    CASE difficulty_ = kBeginner -> item.min_difficulty = kBeginner
      [] difficulty_ = kIntermediate ->
            item.min_difficulty \in {kBeginner, kIntermediate}
      [] difficulty_ = kAdvanced -> TRUE
      [] difficulty_ = kCustom -> item.type \in EnabledKinds

\* The catalog positions of the items the rule keeps, in catalog order.
ExpectedWorkingSet ==
    LET Keeps(i) == InWorkingSet(all_items_[i])
    IN  SelectSeq(AllPositions, Keeps)

\* C11: the working set is exactly the catalog items the difficulty keeps
\* (kBeginner: min_difficulty kBeginner; kIntermediate: kBeginner or
\* kIntermediate; kAdvanced: all; kCustom with a toggle on: the items of the
\* enabled kinds, whatever their min_difficulty), in catalog order.
C11_WorkingSetIsFilteredCatalog ==
    (difficulty_ = kCustom => EnabledKinds # {})
        => items_ = ExpectedWorkingSet

\* Custom with two kinds on keeps a part of the catalog that holds items of
\* every min_difficulty.
C11_Witness ==
    /\ OnlyKind(TRUE, FALSE, FALSE, TRUE)
    /\ Len(items_) < Len(all_items_)
    /\ \A difficulty \in {kBeginner, kIntermediate, kAdvanced} :
        \E i \in 1..Len(items_) :
            all_items_[items_[i]].min_difficulty = difficulty

EventOutcomes ==
    UNION {KeyOutcomes(event) : event \in KeyEvents}
        \cup {OnTimerTick(State)} \cup CloseOutcomes

\* The session of r ended with the challenge completed.
Completed(r) == ~r.training_ /\ r.target_label_ = "Challenge complete!"

\* C13: in Challenge mode with a target of at least one round, an active
\* session has fewer correct rounds than the target; the event that brings
\* rounds_correct_ to the target stops the session with rounds_correct_ equal
\* to the target; and once stopped no key event, tick or close request starts
\* the completion again or changes the counters.
C13_ChallengeStopsAtTarget ==
    (mode_ = kChallenge /\ target_rounds_ >= 1) =>
        /\ training_ => rounds_correct_ < target_rounds_
        /\ training_ =>
                \A r \in EventOutcomes :
                    /\ r.rounds_correct_ >= target_rounds_ => Completed(r)
                    /\ Completed(r) =>
                        /\ r.rounds_correct_ = target_rounds_
                        /\ r.rounds_correct_ = rounds_correct_ + 1
        /\ ~training_ =>
                \A r \in EventOutcomes :
                    /\ ~r.training_
                    /\ r.rounds_total_ = rounds_total_
                    /\ r.rounds_correct_ = rounds_correct_
                    /\ r.target_label_ = target_label_
                    /\ r.history_ = history_

\* A challenge of single keys that ended by itself and was recorded.
C13_Witness ==
    /\ mode_ = kChallenge
    /\ OnlyKind(TRUE, FALSE, FALSE, FALSE)
    /\ ~training_
    /\ target_label_ = "Challenge complete!"
    /\ rounds_correct_ = target_rounds_
    /\ Len(history_) = 1
    /\ history_[1].correct_rounds = target_rounds_

\* The state after n timeouts of the countdown in a row.
RECURSIVE Ticks(_, _)
Ticks(s, n) == IF n = 0 THEN s ELSE Ticks(OnTimerTick(s), n - 1)

\* The states a click on Start can leave.
StartOutcomes ==
    { StartTraining(State, index) :
        index \in RandomIndexes(StartTraining(State, 0),
                                StartTraining(State, 1)) }

\* C14: in Timed mode with a limit of at least one second, a session starts
\* with remaining_seconds_ at the limit; a tick while Running takes exactly
\* one second off and nothing else does; the tick that reaches 0 stops the
\* session ("Time's up!"), so that as many ticks as seconds remain end it at
\* 0 and fewer do not; remaining_seconds_ stays within 0..limit; and a tick
\* after the stop changes nothing.
C14_CountdownEndsSession ==
    (mode_ = kTimed /\ time_limit_seconds_ >= 1) =>
        /\ remaining_seconds_ \in 0..time_limit_seconds_
        /\ training_ => remaining_seconds_ >= 1
        /\ (~training_ /\ start_button_) =>
                \A r \in StartOutcomes :
                    r.remaining_seconds_ = time_limit_seconds_
        /\ Running =>
                /\ \E r \in {OnTimerTick(State)} :
                    /\ r.remaining_seconds_ = remaining_seconds_ - 1
                    /\ r.training_ <=> r.remaining_seconds_ > 0
                    /\ ~r.training_ => r.target_label_ = "Time's up!"
                /\ \E r \in {Ticks(State, remaining_seconds_)} :
                    ~r.training_ /\ r.remaining_seconds_ = 0
                /\ \A n \in 0..(remaining_seconds_ - 1) :
                    \E r \in {Ticks(State, n)} :
                        Running /\ r.training_ /\ ~r.paused_
                            /\ r.remaining_seconds_ = remaining_seconds_ - n
        /\ training_ =>
                \A r \in UNION {KeyOutcomes(event) : event \in KeyEvents}
                            \cup CloseOutcomes
                            \cup {PauseTraining(State), ResumeTraining(State)} :
                    r.remaining_seconds_ = remaining_seconds_
        /\ ~Running => OnTimerTick(State) = State

\* A timed session with a judged round that the countdown ended.
C14_Witness ==
    /\ mode_ = kTimed
    /\ ~training_
    /\ target_label_ = "Time's up!"
    /\ remaining_seconds_ = 0
    /\ time_limit_seconds_ >= 2
    /\ rounds_total_ >= 1

\* ------------------------------------------------------------ elapsed time

\* ms milliseconds pass: elapsed_->elapsed() reads ms more.  QElapsedTimer
\* runs on while the session is paused; only restart() sets it back.
Elapse(s, ms) ==
    IF s.elapsed_.valid THEN [s EXCEPT !.elapsed_.ms = @ + ms] ELSE s

\* qint64 ms = elapsed_->isValid() ? (paused_ ? paused_elapsed_
\*     : elapsed_->elapsed() + paused_elapsed_) : 0;
\* the elapsed time UpdateStatsLabel and UpdateTimerLabel show.
AccountedMs(s) ==
    IF s.elapsed_.valid
    THEN IF s.paused_ THEN s.paused_elapsed_
                      ELSE s.elapsed_.ms + s.paused_elapsed_
    ELSE 0

\* The divisor of the live speed in milliseconds:
\* seconds = ms / 1000.0; if (seconds <= 0.0) seconds = 1.0;
StatsDivisorMs(s) == IF AccountedMs(s) <= 0 THEN 1000 ELSE AccountedMs(s)

\* rounds_per_min = 60.0 * rounds_total_ / seconds, in tenths as
\* QString::number(rounds_per_min, 'f', 1) prints it.
RoundsPerMinuteTenths(s) ==
    (2 * 600000 * s.rounds_total_ + StatsDivisorMs(s))
        \div (2 * StatsDivisorMs(s))

\* The settings store holds the custom difficulty with special keys only.
InitTime ==
    \E stored \in StoredSettings :
        /\ stored.custom_special
        /\ Is(TrainerWindow(stored))

\* The key events of the timed runs: a letter, Space (an item of the
\* working set and the resume key), Escape.
TimeKeyEvents ==
    { KeyEvent(LetterKey("q"), <<"q">>, NoModifier),
      KeyEvent(Key_Space, <<" ">>, NoModifier),
      KeyEvent(Key_Escape, <<"^[">>, NoModifier) }

\* TimeStep milliseconds pass during a session.
AdvanceTime ==
    /\ ~closed_
    /\ training_
    /\ elapsed_.ms < MaxTimeSteps * TimeStep
    /\ Becomes(Elapse(State, TimeStep))

NextTime ==
    \/ ClickStart
    \/ ClickStop
    \/ ClickPause
    \/ \E event \in TimeKeyEvents : KeyPress(event)
    \/ CloseRequest
    \/ TimerTick
    \/ AdvanceTime

SpecTime == InitTime /\ [][NextTime]_vars

\* C15 as stated: the accounted elapsed time of an active session is the
\* time spent Running: a pause and a resume leave it as it is, time that
\* passes while Paused does not count, time that passes while Running counts
\* in full.
C15_AsStated ==
    training_ =>
        /\ AccountedMs(PauseTraining(State)) = AccountedMs(State)
        /\ AccountedMs(ResumeTraining(State)) = AccountedMs(State)
        /\ AccountedMs(Elapse(State, TimeStep))
                = AccountedMs(State) + (IF paused_ THEN 0 ELSE TimeStep)

\* The states an event from outside can leave other than a press of the
\* resume key (Space).
EventOutcomesButResume ==
    UNION {KeyOutcomes(event) : event \in {e \in KeyEvents : e.key # Key_Space}}
        \cup {OnTimerTick(State)} \cup CloseOutcomes

\* C16 as stated: while the session is paused no key event other than the
\* resume key, no tick and no close request changes rounds_total_,
\* rounds_correct_, current_index_ or sequence_pos_, and none of them ends
\* the session by a mode completion.
C16_AsStated ==
    (training_ /\ paused_) =>
        \A r \in EventOutcomesButResume :
            /\ r.rounds_total_ = rounds_total_
            /\ r.rounds_correct_ = rounds_correct_
            /\ r.current_index_ = current_index_
            /\ r.sequence_pos_ = sequence_pos_
            /\ r.training_

\* The states a click on a button of the training page can leave.
ClickOutcomes ==
    (IF start_button_ THEN StartOutcomes ELSE {})
        \cup (IF stop_button_ THEN {StopTraining(State)} ELSE {})
        \cup (IF pause_button_
              THEN {IF paused_ THEN ResumeTraining(State)
                               ELSE PauseTraining(State)}
              ELSE {})

\* r is the state with one record of its session put before the history.
RecordedOnce(r) ==
    /\ Len(r.history_) = Len(history_) + 1
    /\ Tail(r.history_) = history_
    /\ Head(r.history_).total_rounds = r.rounds_total_
    /\ Head(r.history_).correct_rounds = r.rounds_correct_
    /\ Head(r.history_).difficulty = difficulty_
    /\ Head(r.history_).mode = mode_

\* C17: an event that stops an active session (the stop button, Escape, the
\* last tick of the countdown, the round that completes a challenge) puts
\* exactly one record of the session before the history when rounds_total_
\* is positive and the mode is not kZen, and leaves the history as it is
\* otherwise; it leaves training_ and paused_ both false; and no event that
\* is not a stop changes the history.
C17_StopRecordsOnce ==
    \A r \in EventOutcomes \cup ClickOutcomes :
        IF training_ /\ ~r.training_
        THEN /\ ~r.paused_
             /\ IF r.rounds_total_ > 0 /\ mode_ # kZen
                THEN RecordedOnce(r)
                ELSE r.history_ = history_
        ELSE r.history_ = history_

\* A Zen session with a judged round was stopped and nothing was recorded.
C17_Witness ==
    /\ mode_ = kZen
    /\ ~training_
    /\ target_label_ = "Stopped"
    /\ rounds_total_ >= 1
    /\ history_ = <<>>

\* ------------------------------------------------------- the stored history

\* The i-th record of a stored history, left by earlier runs of the program
\* at the kBeginner difficulty: i rounds in i seconds.
StoredRecord(i) ==
    [total_rounds |-> i, correct_rounds |-> i, duration_ms |-> 1000 * i,
     difficulty |-> kBeginner, mode |-> kEndless]

\* The histories the store can hold at construction: none, one short of
\* full, full.  SaveHistory never writes more than kMaxHistoryRecords.
StoredHistories ==
    { [i \in 1..n |-> StoredRecord(i)] :
        n \in {0, kMaxHistoryRecords - 1, kMaxHistoryRecords} }

\* TrainerWindow::LoadHistory with the stored array as found.
LoadHistory(s, stored_history) == [s EXCEPT !.history_ = stored_history]

\* The window constructed with an Endless session of special keys in the
\* settings store and a stored history.
InitHistory ==
    \E stored \in StoredSettings, stored_history \in StoredHistories :
        /\ stored.custom_special
        /\ stored.mode = kEndless
        /\ Is(FilterItemsByDifficulty(
                LoadHistory(LoadSettings(Members(stored)), stored_history)))

\* The records of this run of the program: those of the custom difficulty.
SessionsRecorded ==
    Cardinality({i \in 1..Len(history_) : history_[i].difficulty = kCustom})

StartSession ==
    /\ ~closed_
    /\ start_button_
    /\ stacked_widget_ = "training_page_"
    /\ SessionsRecorded < MaxSessions
    /\ \E index \in RandomIndexes(StartTraining(State, 0),
                                   StartTraining(State, 1)) :
            Becomes(StartTraining(State, index))

\* A key event, while the session has fewer than MaxRounds rounds.
SessionKeyPress(event) ==
    /\ ~closed_
    /\ training_ => rounds_total_ < MaxRounds
    /\ \E r \in KeyOutcomes(event) : Becomes(r)

NextHistory ==
    \/ StartSession
    \/ ClickStop
    \/ \E event \in TimeKeyEvents : SessionKeyPress(event)

SpecHistory == InitHistory /\ [][NextHistory]_vars

\* C18: the history never holds more than kMaxHistoryRecords (100) records;
\* a click or key event that stops a session with a judged round (the mode
\* is kEndless) puts the record of the session at the front,
\* keeps the earlier records behind it in their order, and drops exactly the
\* last (oldest) one when the history was full; so the records of this run
\* lead the history, newest first, and the newest of the stored records
\* follow in their order: with 99 records stored and two sessions recorded,
\* 101 records in all, the 100 newest are left.
C18_HistoryKeepsNewest ==
    /\ Len(history_) <= kMaxHistoryRecords
    /\ \A r \in ClickOutcomes
                \cup UNION {KeyOutcomes(event) : event \in TimeKeyEvents} :
            (training_ /\ ~r.training_ /\ r.rounds_total_ > 0) =>
                /\ Len(r.history_)
                        = IF Len(history_) = kMaxHistoryRecords
                          THEN kMaxHistoryRecords
                          ELSE Len(history_) + 1
                /\ Head(r.history_).total_rounds = r.rounds_total_
                /\ Head(r.history_).difficulty = difficulty_
                /\ Tail(r.history_)
                        = SubSeq(history_, 1, Len(r.history_) - 1)
    /\ \A i \in 1..Len(history_) :
            IF i <= SessionsRecorded
            THEN history_[i].difficulty = kCustom
            ELSE history_[i] = StoredRecord(i - SessionsRecorded)

\* Two sessions were recorded on top of a long history: the history is full,
\* the two new records lead it, and the stored records 1..98 follow.
C18_Witness ==
    /\ Len(history_) = kMaxHistoryRecords
    /\ history_[1].difficulty = kCustom
    /\ history_[2].difficulty = kCustom
    /\ history_[3] = StoredRecord(1)
    /\ history_[kMaxHistoryRecords]
            = StoredRecord(kMaxHistoryRecords - 2)

\* -------------------------------------------------------- the history page

RECURSIVE GCD(_, _)
GCD(a, b) == IF b = 0 THEN a ELSE GCD(b, a % b)

\* A double that is the quotient of two integers, the divisor positive, in
\* lowest terms.
Ratio(num, den) ==
    [num |-> num \div GCD(num, den), den |-> den \div GCD(num, den)]

Zero == Ratio(0, 1)

\* a > b
GreaterThan(a, b) == a.num * b.den > b.num * a.den

\* QString::number(q, 'f', 1), in tenths: q rounded to one decimal.
Tenths(q) == (20 * q.num + q.den) \div (2 * q.den)

\* 60.0 * record.total_rounds / record.duration_seconds
Speed(record) == Ratio(60 * record.total_rounds * 1000, record.duration_ms)

\* 100.0 * record.correct_rounds / record.total_rounds
Accuracy(record) == Ratio(100 * record.correct_rounds, record.total_rounds)

\* Faulty variant: the loop that keeps the speed of the last record that has
\* a duration.
RECURSIVE BestSpeedFrom_LastWins(_, _)
BestSpeedFrom_LastWins(history, best_speed) ==
    IF history = <<>>
    THEN best_speed
    ELSE BestSpeedFrom_LastWins(
            Tail(history),
            IF Head(history).duration_ms > 0
            THEN Speed(Head(history))
            ELSE best_speed)

\* The loop of ShowHistory over the records that follow, for best_speed.
RECURSIVE BestSpeedFrom(_, _)
BestSpeedFrom(history, best_speed) ==
    IF history = <<>>
    THEN best_speed
    ELSE BestSpeedFrom(
            Tail(history),
            IF /\ Head(history).duration_ms > 0
               /\ GreaterThan(Speed(Head(history)), best_speed)
            THEN Speed(Head(history))
            ELSE best_speed)

\* The same loop for best_accuracy.
RECURSIVE BestAccuracyFrom(_, _)
BestAccuracyFrom(history, best_accuracy) ==
    IF history = <<>>
    THEN best_accuracy
    ELSE BestAccuracyFrom(
            Tail(history),
            IF /\ Head(history).total_rounds > 0
               /\ GreaterThan(Accuracy(Head(history)), best_accuracy)
            THEN Accuracy(Head(history))
            ELSE best_accuracy)

\* TrainerWindow::ShowHistory (the list of the 20 newest records is left out)
ShowHistory(s) ==
    [s EXCEPT !.total_sessions_label_ = Len(s.history_),
              !.best_speed_label_ = Tenths(BestSpeedFrom(s.history_, Zero)),
              !.best_accuracy_label_ =
                    Tenths(BestAccuracyFrom(s.history_, Zero)),
              !.stacked_widget_ = "history_page_"]

\* TrainerWindow::ResetHistory
ResetHistory(s) == ShowHistory([s EXCEPT !.history_ = <<>>])

\* The records the history store can hold: sessions of 0, 1 or 10 rounds that
\* took no time, half a second or ten seconds.
StoredSummaryRecords ==
    { [total_rounds |-> rounds[1], correct_rounds |-> rounds[2],
       duration_ms |-> ms, difficulty |-> kCustom, mode |-> kEndless] :
        rounds \in {<<0, 0>>, <<1, 0>>, <<1, 1>>, <<10, 5>>, <<10, 10>>},
        ms \in {0, 500, 10000} }

RECURSIVE HistoriesOfLength(_)
HistoriesOfLength(n) ==
    IF n = 0
    THEN {<<>>}
    ELSE { <<record>> \o history :
            record \in StoredSummaryRecords,
            history \in HistoriesOfLength(n - 1) }

\* The window constructed with a stored history of up to MaxHistoryLen
\* records.
InitSummary ==
    \E stored \in StoredSettings, n \in 0..MaxHistoryLen :
        \E stored_history \in HistoriesOfLength(n) :
            /\ stored.custom_special
            /\ stored.mode = kEndless
            /\ Is(FilterItemsByDifficulty(
                    LoadHistory(LoadSettings(Members(stored)),
                                stored_history)))

\* The history button's click: ShowHistory.
ClickHistory ==
    /\ ~closed_
    /\ history_button_
    /\ stacked_widget_ = "training_page_"
    /\ Becomes(ShowHistory(State))

\* The reset button of the history page.
ClickReset ==
    /\ ~closed_
    /\ stacked_widget_ = "history_page_"
    /\ Becomes(ResetHistory(State))

\* The back button of the history page: ShowTraining.
ClickHistoryBack ==
    /\ ~closed_
    /\ stacked_widget_ = "history_page_"
    /\ Becomes(ShowTraining(State))

NextSummary ==
    \/ ClickHistory
    \/ ClickReset
    \/ ClickHistoryBack

SpecSummary == InitSummary /\ [][NextSummary]_vars

\* The positions of the records that have a duration, and of those that have
\* rounds.
WithDuration == {i \in 1..Len(history_) : history_[i].duration_ms > 0}
WithRounds == {i \in 1..Len(history_) : history_[i].total_rounds > 0}

\* The greatest speed among the records with a duration, 0 without any.
MaxSpeed ==
    IF WithDuration = {}
    THEN Zero
    ELSE Speed(history_[
            CHOOSE i \in WithDuration :
                \A j \in WithDuration :
                    ~GreaterThan(Speed(history_[j]), Speed(history_[i]))])

\* The greatest accuracy among the records with rounds, 0 without any.
MaxAccuracy ==
    IF WithRounds = {}
    THEN Zero
    ELSE Accuracy(history_[
            CHOOSE i \in WithRounds :
                \A j \in WithRounds :
                    ~GreaterThan(Accuracy(history_[j]),
                                 Accuracy(history_[i]))])

\* C19: the summary ShowHistory computes has best_speed = the maximum of
\* 60 * total_rounds / duration_seconds over the records with a positive
\* duration, best_accuracy = the maximum of 100 * correct_rounds /
\* total_rounds over the records with rounds, and the number of records;
\* both maxima are 0 when no record qualifies; the single record of 10
\* rounds, 10 of them correct, in 10 seconds gives 60.0 and 100.0; and the
\* history page shows the summary of the history.
C19_SummaryIsBestOfHistory ==
    /\ \E r \in {ShowHistory(State)} :
        /\ r.total_sessions_label_ = Len(history_)
        /\ r.best_speed_label_ = Tenths(MaxSpeed)
        /\ r.best_accuracy_label_ = Tenths(MaxAccuracy)
        /\ ~GreaterThan(MaxSpeed, BestSpeedFrom(history_, Zero))
        /\ ~GreaterThan(BestSpeedFrom(history_, Zero), MaxSpeed)
        /\ ~GreaterThan(MaxAccuracy, BestAccuracyFrom(history_, Zero))
        /\ ~GreaterThan(BestAccuracyFrom(history_, Zero), MaxAccuracy)
        /\ WithDuration = {} => r.best_speed_label_ = 0
        /\ WithRounds = {} => r.best_accuracy_label_ = 0
        /\ (/\ Len(history_) = 1
            /\ history_[1].total_rounds = 10
            /\ history_[1].correct_rounds = 10
            /\ history_[1].duration_ms = 10000)
                => r.best_speed_label_ = 600 /\ r.best_accuracy_label_ = 1000
    /\ stacked_widget_ = "history_page_" =>
        /\ total_sessions_label_ = Len(history_)
        /\ best_speed_label_ = Tenths(MaxSpeed)
        /\ best_accuracy_label_ = Tenths(MaxAccuracy)

\* The history page shows the summary of two records of which the older is
\* the faster and the newer the more accurate.
C19_Witness ==
    /\ stacked_widget_ = "history_page_"
    /\ Len(history_) = 2
    /\ history_[1].total_rounds = 10
    /\ history_[1].correct_rounds = 10
    /\ history_[1].duration_ms = 10000
    /\ history_[2].total_rounds = 1
    /\ history_[2].correct_rounds = 0
    /\ history_[2].duration_ms = 500
    /\ best_speed_label_ = 1200
    /\ best_accuracy_label_ = 1000
    /\ total_sessions_label_ = 2

\* C20 as stated: when a round is judged less than one second into the
\* session (the mode is not kZen, whose stats label shows no speed), the
\* speed UpdateStatsLabel reports is 60 * rounds_total_ rounds per minute.
C20_AsStated ==
    (Running /\ mode_ # kZen /\ AccountedMs(State) < 1000) =>
        \A event \in TimeKeyEvents :
            \A r \in KeyOutcomes(event) :
                r.rounds_total_ = rounds_total_ + 1 =>
                    RoundsPerMinuteTenths(r) = 10 * 60 * r.rounds_total_

\* C21: a click on Start while no session is active leaves a Running session
\* with both counters and sequence_pos_ at 0, no elapsed time accounted, an
\* empty error label and a current item inside the working set; in kTimed
\* mode remaining_seconds_ is the time limit and the countdown runs, in the
\* other modes the countdown does not run.
C21_StartResetsSession ==
    (~training_ /\ start_button_) =>
        \A r \in StartOutcomes :
            /\ r.training_ /\ ~r.paused_
            /\ r.rounds_total_ = 0
            /\ r.rounds_correct_ = 0
            /\ r.sequence_pos_ = 0
            /\ AccountedMs(r) = 0
            /\ r.paused_elapsed_ = 0
            /\ r.error_label_ = ""
            /\ r.current_index_ \in 0..(Len(r.items_) - 1)
            /\ IF mode_ = kTimed
               THEN /\ r.remaining_seconds_ = time_limit_seconds_
                    /\ r.countdown_timer_
               ELSE ~r.countdown_timer_

\* A second Timed session was just started after one that took time, was
\* paused, had a failed round and was recorded.
C21_Witness ==
    /\ mode_ = kTimed
    /\ Running
    /\ rounds_total_ = 0
    /\ AccountedMs(State) = 0
    /\ remaining_seconds_ = time_limit_seconds_
    /\ countdown_timer_
    /\ Len(history_) = 1
    /\ history_[1].total_rounds = 1
    /\ history_[1].correct_rounds = 0
    /\ history_[1].duration_ms >= 2 * TimeStep

\* C22 as stated: the record a stop puts in the history carries the
\* counters, the difficulty and the mode of the session and, as its
\* duration, the elapsed time of the session without the paused time (the
\* time the stats label and the timer label account for), whether the
\* session is stopped while Running or while Paused.
C22_AsStated ==
    (training_ /\ rounds_total_ > 0 /\ mode_ # kZen) =>
        \E r \in {StopTraining(State)} :
            /\ Head(r.history_).total_rounds = rounds_total_
            /\ Head(r.history_).correct_rounds = rounds_correct_
            /\ Head(r.history_).difficulty = difficulty_
            /\ Head(r.history_).mode = mode_
            /\ Head(r.history_).duration_ms = AccountedMs(State)

\* C23: while the Alt+F4 combo is the current item of a Running session, no
\* key event other than Escape (the Alt+F4 key event included) changes the
\* counters, the current item, sequence_pos_ or the error label, or ends
\* the session; a close request is what completes the item.
C23_CloseIntentIgnoresKeys ==
    (Running /\ IsCloseIntent(CurrentItem)) =>
        /\ \A event \in {e \in KeyEvents : e.key # Key_Escape} :
                \A r \in KeyOutcomes(event) :
                    /\ r.rounds_total_ = rounds_total_
                    /\ r.rounds_correct_ = rounds_correct_
                    /\ r.current_index_ = current_index_
                    /\ r.sequence_pos_ = sequence_pos_
                    /\ r.error_label_ = error_label_
                    /\ r.training_ /\ ~r.paused_
        /\ \A r \in CloseOutcomes :
                r.rounds_correct_ = rounds_correct_ + 1

\* After a matched combo the draw made Alt+F4 the current item.
C23_Witness ==
    /\ OnlyKind(FALSE, FALSE, TRUE, FALSE)
    /\ Running
    /\ IsCloseIntent(CurrentItem)
    /\ rounds_correct_ = 1
    /\ rounds_total_ = 1

\* The events judged against a SpecialKey item: all but the pure modifier
\* keys and Escape.
SpecialKeyEvents ==
    {e \in KeyEvents : e.key \notin PureModifierKeys \cup {Key_Escape}}

\* C24: against a SpecialKey item every judged key event counts a round, a
\* correct one exactly when its key code is the item's, whatever its
\* modifiers: Space pressed with Shift matches the item Space, and F4
\* pressed with Alt the item F4.
C24_SpecialKeyIgnoresModifiers ==
    (Running /\ CurrentItem.type = kSpecialKey) =>
        /\ \A event \in SpecialKeyEvents :
                \A r \in KeyOutcomes(event) :
                    /\ r.rounds_total_ = rounds_total_ + 1
                    /\ r.rounds_correct_ =
                            rounds_correct_
                                + (IF event.key = CurrentItem.key THEN 1 ELSE 0)
        /\ \A event \in SpecialKeyEvents :
                (event.key = CurrentItem.key /\ event.modifiers # NoModifier)
                    => \A r \in KeyOutcomes(event) :
                            /\ r.rounds_correct_ = rounds_correct_ + 1
                            /\ r.error_label_ = ""

\* A session of special keys with one matched and one failed round, the
\* item Space current (Shift+Space is among the key events).
C24_Witness ==
    /\ OnlyKind(FALSE, TRUE, FALSE, FALSE)
    /\ training_
    /\ CurrentItem.key = Key_Space
    /\ rounds_correct_ = 1
    /\ rounds_total_ = 2

\* The states the settings page can leave by switching the last enabled kind
\* off or by selecting the custom difficulty.
EmptyingOutcomes ==
    { CustomSingleToggled(State, FALSE), CustomSpecialToggled(State, FALSE),
      CustomComboToggled(State, FALSE), CustomSequenceToggled(State, FALSE),
      OnDifficultyChanged(State, kCustom) }

\* C25: with the custom difficulty and the four toggles off the working set
\* is the whole catalog, in catalog order; the settings change that empties
\* the filter sets no error message and touches nothing but the setting and
\* the working set, and a session starts from it as from any other.
C25_EmptyFilterFallsBack ==
    /\ (difficulty_ = kCustom /\ EnabledKinds = {}) =>
            /\ items_ = AllPositions
            /\ error_label_ = ""
            /\ (~closed_ /\ start_button_) =>
                    \A r \in StartOutcomes :
                        /\ r.training_
                        /\ r.items_ = AllPositions
                        /\ r.error_label_ = ""
    /\ \A r \in EmptyingOutcomes :
            (r.difficulty_ = kCustom
                /\ ~r.custom_single_keys_ /\ ~r.custom_special_keys_
                /\ ~r.custom_combos_ /\ ~r.custom_sequences_) =>
                    /\ r.items_ = AllPositions
                    /\ r.error_label_ = error_label_
                    /\ r.target_label_ = target_label_
                    /\ r.training_ = training_
                    /\ r.start_button_ = start_button_

\* Back on the training page with the custom difficulty and no kind enabled.
C25_Witness ==
    /\ OnlyKind(FALSE, FALSE, FALSE, FALSE)
    /\ items_ = AllPositions
    /\ stacked_widget_ = "training_page_"
    /\ error_label_ = ""
    /\ ~closed_

\* C26 as stated: below kAdvanced the working set holds no Sequence item; at
\* kIntermediate it holds single keys, special keys and combos only.
C26_AsStated ==
    difficulty_ \in {kBeginner, kIntermediate} =>
        \A i \in 1..Len(items_) :
            all_items_[items_[i]].type \in {kSingleKey, kSpecialKey, kCombo}

\* ------------------------------------------------- the countdown's progress

\* The settings store holds the Timed mode and special keys only.
InitTimed ==
    \E stored \in StoredSettings :
        /\ stored.custom_special
        /\ stored.mode = kTimed
        /\ Is(TrainerWindow(stored))

\* The pause button (or nothing else than it) resumes a paused session.
ClickResume == paused_ /\ ClickPause

NextTimed ==
    \/ ClickStart
    \/ ClickStop
    \/ ClickPause
    \/ \E event \in TimeKeyEvents : KeyPress(event)
    \/ CloseRequest
    \/ TimerTick

\* The countdown timer fires again and again while it is active (a timeout
\* is delivered whenever the timer is active often enough), and a paused
\* session is resumed.
SpecTimed ==
    /\ InitTimed
    /\ [][NextTimed]_vars
    /\ SF_vars(TimerTick)
    /\ WF_vars(ClickResume)

\* C27: a Timed session with a limit of at least one second ends, whatever
\* keys are pressed, when the countdown keeps ticking and every pause is
\* followed by a resume.
C27_TimedSessionEnds ==
    (mode_ = kTimed /\ time_limit_seconds_ >= 1 /\ training_) ~> ~training_

\* The countdown alone ended a Timed session in which no round was judged.
C27_Witness ==
    /\ mode_ = kTimed
    /\ ~training_
    /\ ~countdown_timer_
    /\ target_label_ = "Time's up!"
    /\ rounds_total_ = 0
    /\ history_ = <<>>

\* C28: a timeout of the countdown that reaches a paused session, or a window
\* without an active session, leaves remaining_seconds_, the counters,
\* training_, paused_, the current item, the labels and the history as they
\* are.
C28_TickInertUnlessRunning ==
    (paused_ \/ ~training_) =>
        \E r \in {OnTimerTick(State)} :
            /\ r.remaining_seconds_ = remaining_seconds_
            /\ r.rounds_total_ = rounds_total_
            /\ r.rounds_correct_ = rounds_correct_
            /\ r.training_ = training_
            /\ r.paused_ = paused_
            /\ r.current_index_ = current_index_
            /\ r.sequence_pos_ = sequence_pos_
            /\ r.target_label_ = target_label_
            /\ r.error_label_ = error_label_
            /\ r.history_ = history_
            /\ r.countdown_timer_ = countdown_timer_

\* A Timed session paused after its first tick, one second left.
C28_Witness ==
    /\ mode_ = kTimed
    /\ training_ /\ paused_
    /\ ~countdown_timer_
    /\ remaining_seconds_ = 1
    /\ remaining_seconds_ < time_limit_seconds_

\* C29: a press of Space, with or without modifiers, in a paused session
\* leaves the session Running and is not judged: the counters, the current
\* item, sequence_pos_ and the error label are as before, also when the
\* current item is the special key Space; the item is shown again, and in
\* kTimed mode the countdown runs again from the remaining seconds it had.
C29_ResumeKeyIsNotJudged ==
    (training_ /\ paused_) =>
        \A event \in {e \in KeyEvents : e.key = Key_Space} :
            \A r \in KeyOutcomes(event) :
                /\ r.training_ /\ ~r.paused_
                /\ r.rounds_total_ = rounds_total_
                /\ r.rounds_correct_ = rounds_correct_
                /\ r.current_index_ = current_index_
                /\ r.sequence_pos_ = sequence_pos_
                /\ r.error_label_ = error_label_
                /\ r.history_ = history_
                /\ r.target_label_ = ShowCurrentItem(State).target_label_
                /\ r.remaining_seconds_ = remaining_seconds_
                /\ r.countdown_timer_ = (mode_ = kTimed)

\* A Timed session paused after a tick and a judged round, with the special
\* key Space as the current item.
C29_Witness ==
    /\ mode_ = kTimed
    /\ training_ /\ paused_
    /\ CurrentItem.type = kSpecialKey
    /\ CurrentItem.key = Key_Space
    /\ rounds_total_ = 1
    /\ remaining_seconds_ = 1
    /\ target_label_ = "Paused"

\* ------------------------------------------------------------ live accuracy

\* accuracy = (rounds_total_ > 0)
\*     ? (100.0 * rounds_correct_ / rounds_total_) : 0.0;
LiveAccuracy(s) ==
    IF s.rounds_total_ > 0
    THEN Ratio(100 * s.rounds_correct_, s.rounds_total_)
    ELSE Zero

\* QString::number(accuracy, 'f', 1), in tenths.
AccuracyTenths(s) == Tenths(LiveAccuracy(s))

\* C30: the accuracy the stats label shows is 0 while no round was judged
\* and otherwise 100 * rounds_correct_ / rounds_total_ (to the printed
\* decimal: within half a tenth of it); rounds_correct_ never exceeds
\* rounds_total_, so the accuracy is between 0 and 100 in every state.
C30_AccuracyWithinRange ==
    /\ 0 <= rounds_correct_ /\ rounds_correct_ <= rounds_total_
    /\ AccuracyTenths(State) \in 0..1000
    /\ rounds_total_ = 0 => AccuracyTenths(State) = 0
    /\ rounds_total_ > 0 =>
        /\ 2 * rounds_total_ * AccuracyTenths(State)
                <= 2000 * rounds_correct_ + rounds_total_
        /\ 2 * rounds_total_ * AccuracyTenths(State)
                > 2000 * rounds_correct_ - rounds_total_
        /\ rounds_correct_ = rounds_total_ => AccuracyTenths(State) = 1000

\* A session of sequences with one completed and one failed round: 50.0 %.
C30_Witness ==
    /\ OnlyKind(FALSE, FALSE, FALSE, TRUE)
    /\ training_
    /\ rounds_total_ = 2
    /\ rounds_correct_ = 1
    /\ AccuracyTenths(State) = 500

\* ------------------------------------------------------ the stored settings

\* time_spin_->setRange(10, 600) and rounds_spin_->setRange(5, 500)
TimeSpinMinimum == 10
TimeSpinMaximum == 600
RoundsSpinMinimum == 5
RoundsSpinMaximum == 500

\* The values the spin boxes deliver: one step above the minimum and the
\* maximum of each.
TimeSpinValues == {TimeSpinMinimum + 1, TimeSpinMaximum}
RoundsSpinValues == {RoundsSpinMinimum + 1, RoundsSpinMaximum}

\* The window as constructed from one settings store.
InitPersist == Init /\ mode_ = kEndless /\ custom_single_keys_

\* The two check boxes of the settings page's options group.
ToggleSound ==
    /\ ~closed_
    /\ stacked_widget_ = "settings_page_"
    /\ Becomes(SoundToggled(State, ~sound_enabled_))

ToggleKeyboard ==
    /\ ~closed_
    /\ stacked_widget_ = "settings_page_"
    /\ Becomes(KeyboardToggled(State, ~show_keyboard_))

\* time_spin_ is enabled for kTimed only, rounds_spin_ for kChallenge only.
ChangeTimeLimit ==
    /\ ~closed_
    /\ stacked_widget_ = "settings_page_"
    /\ mode_ = kTimed
    /\ \E value \in TimeSpinValues \ {time_limit_seconds_} :
            Becomes(TimeLimitChanged(State, value))

ChangeTargetRounds ==
    /\ ~closed_
    /\ stacked_widget_ = "settings_page_"
    /\ mode_ = kChallenge
    /\ \E value \in RoundsSpinValues \ {target_rounds_} :
            Becomes(TargetRoundsChanged(State, value))

\* theme_button_'s click, on the training page.
ClickTheme ==
    /\ ~closed_
    /\ stacked_widget_ = "training_page_"
    /\ Becomes(ToggleTheme(State))

\* The window between sessions, with every control that changes a setting.
NextPersist ==
    \/ ClickSettings
    \/ ClickBack
    \/ SelectDifficulty
    \/ SelectMode
    \/ ToggleCustomSingle
    \/ ToggleCustomSpecial
    \/ ToggleCustomCombo
    \/ ToggleCustomSequence
    \/ ToggleSound
    \/ ToggleKeyboard
    \/ ChangeTimeLimit
    \/ ChangeTargetRounds
    \/ ClickTheme
    \/ CloseRequest

SpecPersist == InitPersist /\ [][NextPersist]_vars

\* The states the settings-changing operations can leave: those of the
\* controls the page on display offers.
SettingsChangeOutcomes ==
    IF closed_
    THEN {}
    ELSE IF stacked_widget_ = "settings_page_"
    THEN UNION {
            { OnDifficultyChanged(State, difficulty) :
                difficulty \in Difficulty \ {difficulty_} },
            { OnModeChanged(State, mode) : mode \in TrainingMode \ {mode_} },
            IF difficulty_ = kCustom
            THEN { CustomSingleToggled(State, ~custom_single_keys_),
                   CustomSpecialToggled(State, ~custom_special_keys_),
                   CustomComboToggled(State, ~custom_combos_),
                   CustomSequenceToggled(State, ~custom_sequences_) }
            ELSE {},
            { SoundToggled(State, ~sound_enabled_),
              KeyboardToggled(State, ~show_keyboard_) },
            IF mode_ = kTimed
            THEN { TimeLimitChanged(State, value) :
                    value \in TimeSpinValues \ {time_limit_seconds_} }
            ELSE {},
            IF mode_ = kChallenge
            THEN { TargetRoundsChanged(State, value) :
                    value \in RoundsSpinValues \ {target_rounds_} }
            ELSE {} }
    ELSE { ToggleTheme(State) }

InitInterface ==
    \E stored \in StoredSettings :
        /\ stored.custom_special
        /\ stored.mode = kZen
        /\ Is(TrainerWindow(stored))

\* The training page with its sessions, and the settings page with controls
\* that change the working set (the difficulty and two of the custom boxes),
\* as the buttons give access to them.
NextInterface ==
    \/ ClickStart
    \/ ClickStop
    \/ ClickPause
    \/ \E event \in TimeKeyEvents : KeyPress(event)
    \/ CloseRequest
    \/ ClickSettings
    \/ ClickBack
    \/ SelectDifficulty
    \/ ToggleCustomSpecial
    \/ ToggleCustomSequence

SpecInterface == InitInterface /\ [][NextInterface]_vars

\* current_index_ is an index of the working set.
IndexInRange(s) == 0 <= s.current_index_ /\ s.current_index_ < Len(s.items_)

\* C37: while a session is active (Running or Paused) current_index_ is an
\* index of the working set.  The settings page, which changes the working
\* set, is out of reach during a session; an index that a change of the
\* working set between two sessions left out of range is replaced by the
\* start of the next session.
C37_IndexValidInSession ==
    /\ training_ => IndexInRange(State)
    /\ training_ =>
            /\ stacked_widget_ = "training_page_"
            /\ ~settings_button_
    /\ (~closed_ /\ start_button_ /\ stacked_widget_ = "training_page_") =>
            \A r \in StartOutcomes : r.training_ /\ IndexInRange(r)

\* Between two sessions the working set shrank and left the index of the
\* last session out of range; Start is about to be clicked.
C37_Witness ==
    /\ ~closed_ /\ ~training_
    /\ start_button_ /\ stacked_widget_ = "training_page_"
    /\ current_index_ >= Len(items_)
    /\ \E r \in StartOutcomes : r.training_ /\ IndexInRange(r)

\* ------------------------------------------------------- Zen and Endless

\* UpdateStatsLabel shows a fixed text instead of the statistics.
StatsSuppressed(s) == s.mode_ = kZen

\* The Zen session that goes with an Endless one: the same window, set up
\* from a store that holds kZen, with the history as loaded.
ZenTwin(s) ==
    [s EXCEPT !.mode_ = kZen, !.settings_store_.mode = kZen,
              !.history_ = <<>>]

\* What the claim observes of a session.
SessionView(s) ==
    << s.training_, s.paused_, s.rounds_total_, s.rounds_correct_,
       s.current_index_, s.sequence_pos_ >>

\* The handler leaves the Zen session, for the same draw, where it leaves the
\* Endless one: r from State, z from ZenTwin(State).
ZenFollows(r, z) ==
    /\ SessionView(z) = SessionView(r)
    /\ z = ZenTwin(r)
    /\ z.history_ = <<>>
    /\ StatsSuppressed(z) /\ ~StatsSuppressed(r)

\* C33: a Zen session advances as an Endless one.  From every state of an
\* Endless run and from the Zen state that goes with it, each key event,
\* close request, pause or resume, stop and start leaves, for the same draw,
\* two states with the same training_, paused_, rounds_total_,
\* rounds_correct_, current_index_ and sequence_pos_, which differ in the
\* mode, in the statistics being shown and in the history only: the Endless
\* stop records the session when it has rounds, the Zen stop records nothing.
C33_ZenAdvancesAsEndless ==
    (mode_ = kEndless /\ ~closed_) =>
        /\ \A event \in KeyEvents :
            \A index \in RandomIndexes(keyPressEvent(State, event, 0),
                                       keyPressEvent(State, event, 1)) :
                ZenFollows(keyPressEvent(State, event, index),
                           keyPressEvent(ZenTwin(State), event, index))
        /\ \A index \in RandomIndexes(closeEvent(State, 0),
                                       closeEvent(State, 1)) :
                ZenFollows(closeEvent(State, index),
                           closeEvent(ZenTwin(State), index))
        /\ pause_button_ =>
                /\ ZenFollows(PauseTraining(State),
                              PauseTraining(ZenTwin(State)))
                /\ ZenFollows(ResumeTraining(State),
                              ResumeTraining(ZenTwin(State)))
        /\ stop_button_ =>
                /\ ZenFollows(StopTraining(State), StopTraining(ZenTwin(State)))
                /\ rounds_total_ > 0 =>
                        StopTraining(State).history_ # history_
        /\ start_button_ =>
                \A index \in RandomIndexes(StartTraining(State, 0),
                                           StartTraining(State, 1)) :
                    ZenFollows(StartTraining(State, index),
                               StartTraining(ZenTwin(State), index))

\* An Endless session of sequences with one round won and a sequence under
\* way, which the next character advances in both modes.
C33_Witness ==
    /\ mode_ = kEndless /\ training_ /\ ~paused_
    /\ OnlyKind(FALSE, FALSE, FALSE, TRUE)
    /\ rounds_correct_ = 1 /\ sequence_pos_ = 1
    /\ \E event \in KeyEvents :
            /\ keyPressEvent(State, event, 0).rounds_correct_ = 2
            /\ keyPressEvent(ZenTwin(State), event, 0).rounds_correct_ = 2
            /\ keyPressEvent(ZenTwin(State), event, 0).history_ = <<>>

\* C34 as stated: whenever a session is Running and its current item is a
\* sequence, the target label shows the item's label with the fraction
\* sequence_pos_ / length of the sequence, also right after the session was
\* resumed from a pause taken in mid-sequence.
C34_AsStated ==
    (Running /\ IndexInRange(State) /\ CurrentItem.type = kSequence) =>
        target_label_ =
            SequenceDisplay(CurrentItem.label, sequence_pos_,
                            Len(CurrentItem.sequence))

\* ---------------------------------------------------- the session's counters

\* From the state of the window to r no counter goes down, rounds_total_
\* goes up by one at most, and rounds_correct_ by one with it or not at all.
CountersStep(r) ==
    /\ r.rounds_total_ \in {rounds_total_, rounds_total_ + 1}
    /\ r.rounds_correct_ \in {rounds_correct_, rounds_correct_ + 1}
    /\ r.rounds_correct_ > rounds_correct_ => r.rounds_total_ > rounds_total_

\* C35: in every state 0 <= rounds_correct_ <= rounds_total_, and no event of
\* a session (a key event, a close request, a timeout of the countdown, a
\* click on Stop or on Pause) takes a counter down: an event leaves
\* rounds_total_ as it is or one higher, and rounds_correct_ as it is or,
\* when rounds_total_ goes up, one higher.
C35_CountersGrowTogether ==
    /\ 0 <= rounds_correct_
    /\ rounds_correct_ <= rounds_total_
    /\ training_ =>
            /\ \A event \in KeyEvents : \A r \in KeyOutcomes(event) :
                    CountersStep(r)
            /\ \A r \in CloseOutcomes : CountersStep(r)
            /\ CountersStep(OnTimerTick(State))
            /\ CountersStep(StopTraining(State))
            /\ CountersStep(PauseTraining(State))
            /\ CountersStep(ResumeTraining(State))

\* A session of combos with one round won and the close-intent combo as
\* current item: the close request counts one more attempt and one more
\* correct round.
C35_Witness ==
    /\ training_ /\ ~paused_
    /\ IsCurrentItemAltF4(State)
    /\ rounds_total_ = 1 /\ rounds_correct_ = 1
    /\ \E r \in CloseOutcomes :
            r.rounds_total_ = 2 /\ r.rounds_correct_ = 2

\* C36: between the events of an active session sequence_pos_ is at least 0
\* and less than the length of the sequence when the current item is a
\* sequence (the length itself is never seen: the completed sequence is
\* replaced at once), and 0 when the current item is of another kind.
C36_ProgressWithinSequence ==
    (training_ /\ IndexInRange(State)) =>
        IF CurrentItem.type = kSequence
        THEN 0 <= sequence_pos_ /\ sequence_pos_ < Len(CurrentItem.sequence)
        ELSE sequence_pos_ = 0

\* One character is missing of a sequence of four in a mixed working set: the
\* character completes it, and an item of another kind can follow.
C36_Witness ==
    /\ training_ /\ ~paused_ /\ IndexInRange(State)
    /\ CurrentItem.type = kSequence
    /\ Len(CurrentItem.sequence) = 4
    /\ sequence_pos_ = 3
    /\ \E event \in TimeKeyEvents : \E r \in KeyOutcomes(event) :
            /\ r.rounds_correct_ = rounds_correct_ + 1
            /\ r.sequence_pos_ = 0
            /\ ItemAt(r, r.current_index_).type # kSequence

\* ------------------------------------------- sessions of one mode and another

\* The settings store holds the Timed mode and special keys only.
InitModes == InitTimed

\* The training page with its sessions and the countdown, and the settings
\* page with the mode.
NextModes ==
    \/ ClickStart
    \/ ClickStop
    \/ ClickPause
    \/ \E event \in TimeKeyEvents : KeyPress(event)
    \/ CloseRequest
    \/ TimerTick
    \/ ClickSettings
    \/ ClickBack
    \/ SelectMode

SpecModes == InitModes /\ [][NextModes]_vars

\* C38: the countdown timer is active exactly while a session is active, not
\* paused and in Timed mode, so that a timeout finds a Running Timed session
\* and none is left over for a later session.
C38_CountdownOnlyWhileTimedRuns ==
    countdown_timer_ <=> (training_ /\ ~paused_ /\ mode_ = kTimed)

\* An Endless session runs, without countdown, after a Timed session that
\* was recorded.
C38_Witness ==
    /\ training_ /\ ~paused_
    /\ mode_ = kEndless
    /\ ~countdown_timer_
    /\ history_ # <<>>
    /\ history_[1].mode = kTimed

\* The key events without text that are neither a modifier key nor Escape:
\* a function key, a key pressed with Control.
TextlessKeyEvents ==
    { event \in KeyEvents :
        /\ event.text = <<>>
        /\ event.key \notin PureModifierKeys \cup {Key_Escape} }

\* C39: while the current item of a Running session is a single key or a
\* sequence, a key event without text that is neither a modifier key nor
\* Escape is ignored: rounds_total_, rounds_correct_, current_index_,
\* sequence_pos_ and the error message are as they were, and so are the
\* session and what the target label shows.
C39_TextlessKeyIgnored ==
    (Running /\ IndexInRange(State)
        /\ CurrentItem.type \in {kSingleKey, kSequence}) =>
        \A event \in TextlessKeyEvents : \A r \in KeyOutcomes(event) :
            /\ r.rounds_total_ = rounds_total_
            /\ r.rounds_correct_ = rounds_correct_
            /\ r.current_index_ = current_index_
            /\ r.sequence_pos_ = sequence_pos_
            /\ r.error_label_ = error_label_
            /\ r.target_label_ = target_label_
            /\ r.training_ /\ ~r.paused_

\* A sequence with its first character typed, after a failed attempt: the
\* state a function key leaves as it is.
C39_Witness ==
    /\ Running /\ IndexInRange(State)
    /\ CurrentItem.type = kSequence
    /\ sequence_pos_ = 1
    /\ rounds_total_ = 1 /\ rounds_correct_ = 0
    /\ TextlessKeyEvents # {}
    /\ \A event \in TextlessKeyEvents : KeyOutcomes(event) = {State}

\* ------------------------------------------------------- pause and resume

\* s and r differ in nothing but the pause flag, the time accounting, the
\* countdown timer and what the target label shows.
OnlyPauseChanged(s, r) ==
    [r EXCEPT !.paused_ = s.paused_,
              !.elapsed_ = s.elapsed_,
              !.paused_elapsed_ = s.paused_elapsed_,
              !.countdown_timer_ = s.countdown_timer_,
              !.target_label_ = s.target_label_] = s

\* C40: PauseTraining and ResumeTraining leave rounds_total_,
\* rounds_correct_, current_index_, sequence_pos_ and remaining_seconds_ as
\* they were, and change nothing but the pause flag, the time accounting, the
\* countdown timer and the target label.  PauseTraining changes nothing at
\* all unless the session is active and not paused, ResumeTraining nothing
\* unless it is active and paused; StopTraining clears the pause flag; a
\* paused session is always active.
C40_PauseResumeFrame ==
    /\ paused_ => training_
    /\ \E p \in {PauseTraining(State)} :
            /\ OnlyPauseChanged(State, p)
            /\ p.rounds_total_ = rounds_total_
            /\ p.rounds_correct_ = rounds_correct_
            /\ p.current_index_ = current_index_
            /\ p.sequence_pos_ = sequence_pos_
            /\ p.remaining_seconds_ = remaining_seconds_
            /\ IF training_ /\ ~paused_
               THEN p.paused_ /\ p.training_ /\ ~p.countdown_timer_
               ELSE p = State
    /\ \E r \in {ResumeTraining(State)} :
            /\ OnlyPauseChanged(State, r)
            /\ r.rounds_total_ = rounds_total_
            /\ r.rounds_correct_ = rounds_correct_
            /\ r.current_index_ = current_index_
            /\ r.sequence_pos_ = sequence_pos_
            /\ r.remaining_seconds_ = remaining_seconds_
            /\ IF training_ /\ paused_
               THEN ~r.paused_ /\ r.training_
               ELSE r = State
    /\ ~StopTraining(State).paused_ /\ ~StopTraining(State).training_

\* A Timed session of sequences, paused with one second left and one
\* character typed, which the resume takes up where it was.
C40_Witness ==
    /\ training_ /\ paused_
    /\ mode_ = kTimed
    /\ remaining_seconds_ = 1
    /\ CurrentItem.type = kSequence
    /\ sequence_pos_ = 1
    /\ ResumeTraining(State).sequence_pos_ = 1
    /\ ResumeTraining(State).remaining_seconds_ = 1
    /\ ~ResumeTraining(State).paused_

====
